---- MODULE Spec2Model ----
(***************************************************************************)
(* Schema reference resolution and documentation index builder of the      *)
(* openresponses site (src/lib/openapi): the JSON-pointer resolver, the    *)
(* schema classifier, the union variant expander, the reference collector, *)
(* the section builder and the row builder.                                *)
(*                                                                         *)
(* Strings that the code splits or rewrites (pointers, $ref values) are    *)
(* sequences of tokens: the characters "#", "/", "~", "0", "1" and chunks  *)
(* of ordinary characters ("components", "A").  Strings the code only      *)
(* compares (types, property names, enum values) are TLA+ strings.         *)
(*                                                                         *)
(* A schema node is a record that has exactly the fields the JSON node     *)
(* has; `ref` stands for `$ref`, `inlineable` for `x-inlineable`,          *)
(* `unionTitle` for `x-unionTitle`.  `properties` is the ordered list of   *)
(* the object's entries (insertion order of the JSON object).              *)
(***************************************************************************)
EXTENDS Integers, Sequences, FiniteSets, TLC

VARIABLES
  mode,       \* which entry point this run exercises
  pc,         \* "start" before the call, "done" once it has returned or thrown
  document,   \* the OpenAPI document: document.schemas is components.schemas
  roots,      \* the schemas handed to the entry point, in call order
  result,     \* what the call returned, Ok(value), or Thrown
  pointer,    \* pointer mode: the pointer string handed to getByJsonPointer
  ptrDoc,     \* pointer mode: the JSON document it is resolved against
  ptrResult,  \* pointer mode: what getByJsonPointer returned
  cachedDoc,  \* load.ts: the module variable cachedDoc, 0 for null, else the
              \* identity of the object JSON.parse returned
  calls,      \* load.ts: each call of loadOpenApiDocument, where it stands
              \* and the object its promise resolved to
  reads,      \* load.ts: how many times fs.readFile was called
  parses,     \* load.ts: how many times JSON.parse was called
  responseBody, \* sse-parser.ts: the whole stream of response.body
  consumed,   \* sse-parser.ts: how much of it reader.read() has handed out
  buffer,     \* sse-parser.ts: the locals of parseSSEStream
  events,
  errors,
  finalResponse

loadVars == <<cachedDoc, calls, reads, parses>>
sseVars == <<responseBody, consumed, buffer, events, errors, finalResponse>>
vars == <<mode, pc, document, roots, result, pointer, ptrDoc, ptrResult, loadVars, sseVars>>

(***************************************************************************)
(* Bounds of the model.                                                    *)
(***************************************************************************)
MaxPointerLen == 4
\* roots handed to buildReferenceSections
MaxRoots == 2
\* call depth available to one entry-point call (the JavaScript call stack)
MaxDepth == 20

\* Sequences over S of length 0..n.
SeqsUpTo(S, n) == UNION {[1..k -> S] : k \in 0..n}

(***************************************************************************)
(* Strings as token sequences.                                             *)
(***************************************************************************)

\* String.prototype.startsWith
startsWith(s, prefix) ==
  /\ Len(s) >= Len(prefix)
  /\ SubSeq(s, 1, Len(prefix)) = prefix

\* String.prototype.split(sep) for a one-token separator: the pieces between
\* the separators, left to right; a string with no separator is one piece.
RECURSIVE splitFrom(_, _, _, _)
splitFrom(s, sep, i, cur) ==
  IF i > Len(s) THEN <<cur>>
  ELSE IF s[i] = sep THEN <<cur>> \o splitFrom(s, sep, i + 1, <<>>)
  ELSE splitFrom(s, sep, i + 1, Append(cur, s[i]))

split(s, sep) == splitFrom(s, sep, 1, <<>>)

\* String.prototype.replace(/ab/g, c) for a two-token pattern <<a, b>>:
\* non-overlapping matches, scanned left to right.
RECURSIVE replaceAll2(_, _, _, _)
replaceAll2(s, a, b, c) ==
  IF Len(s) = 0 THEN <<>>
  ELSE IF Len(s) >= 2 /\ s[1] = a /\ s[2] = b
       THEN <<c>> \o replaceAll2(SubSeq(s, 3, Len(s)), a, b, c)
  ELSE <<s[1]>> \o replaceAll2(Tail(s), a, b, c)

(***************************************************************************)
(* resolve.ts: the pointer resolver.                                       *)
(***************************************************************************)

\* decodePointerSegment, with the two passes in the wrong order.
decodePointerSegmentSwapped(seg) ==
  replaceAll2(replaceAll2(seg, "~", "0", "~"), "~", "1", "/")

\* decodePointerSegment: seg.replace(/~1/g, "/").replace(/~0/g, "~")
decodePointerSegment(seg) ==
  replaceAll2(replaceAll2(seg, "~", "1", "/"), "~", "0", "~")

\* JSON values: an object is a function from keys (token sequences) to
\* values; a leaf is a number or boolean, named by `v`; JSON null; and
\* JavaScript's undefined, the result of a lookup that finds nothing.
JObj(f) == [k |-> "obj", f |-> f]
JLeaf(v) == [k |-> "leaf", v |-> v]
JNull == [k |-> "null"]
JUndefined == [k |-> "undefined"]

\* cur[p] for a value that is neither null nor undefined: the property of an
\* object, undefined for a missing key and for any key of a number/boolean.
jsIndex(cur, p) ==
  IF cur.k = "obj" /\ p \in DOMAIN cur.f THEN cur.f[p] ELSE JUndefined

\* the for loop of getByJsonPointer over parts[i..]
RECURSIVE walkParts(_, _, _)
walkParts(cur, parts, i) ==
  IF i > Len(parts) THEN cur
  ELSE IF cur.k \in {"null", "undefined"} THEN JUndefined
  ELSE walkParts(jsIndex(cur, parts[i]), parts, i + 1)

\* getByJsonPointer without the test for the "#/" prefix
getByJsonPointerAnyPrefix(d, ptr) ==
  LET raw == split(SubSeq(ptr, 3, Len(ptr)), "/")
      parts == [i \in 1..Len(raw) |-> decodePointerSegment(raw[i])]
  IN walkParts(d, parts, 1)

getByJsonPointer(d, ptr) ==
  IF ~startsWith(ptr, <<"#", "/">>) THEN JUndefined
  ELSE LET raw == split(SubSeq(ptr, 3, Len(ptr)), "/")
           parts == [i \in 1..Len(raw) |-> decodePointerSegment(raw[i])]
       IN walkParts(d, parts, 1)

\* a JSON string, its characters the token sequence s
JStr(s) == [k |-> "str", s |-> s]
\* the key "$ref"
RefKey == <<"$ref">>

\* isRef: an object (not null) that has "$ref", and the "$ref" is a string
isRef(v) ==
  /\ v.k = "obj"
  /\ RefKey \in DOMAIN v.f
  /\ v.f[RefKey].k = "str"

\* resolveRef of resolve.ts (the classifier has a resolveRef of its own)
resolveRefByPointer(d, ref) ==
  IF ~startsWith(ref, <<"#", "/">>) THEN JUndefined
  ELSE getByJsonPointer(d, ref)

\* derefSchema: `!schema` holds of null and undefined; `resolved ?? schema`
derefSchema(d, schema) ==
  IF schema.k \in {"null", "undefined"} \/ ~isRef(schema) THEN schema
  ELSE LET resolved == resolveRefByPointer(d, schema.f[RefKey].s)
       IN IF resolved.k \in {"null", "undefined"} THEN schema ELSE resolved

(***************************************************************************)
(* schema.ts: the schema classifier.                                       *)
(*                                                                         *)
(* Every classifier function is recursive and has no cycle guard, so each  *)
(* takes the call depth `d` it may still use: a call made with no depth    *)
(* left is JavaScript's "RangeError: Maximum call stack size exceeded",    *)
(* which nothing in the code catches.  A result is Ok(v) or Thrown.        *)
(*                                                                         *)
(* `resolved !== schema` compares object identity.  The model compares     *)
(* structure: two distinct nodes of equal structure give every classifier  *)
(* function the same result, so the outcome is the same.                   *)
(***************************************************************************)
Ok(v) == [v |-> v]
Thrown == [err |-> "RangeError"]
IsThrown(r) == "err" \in DOMAIN r
\* `const v = <call>; <rest>`: a throw in the call is the caller's throw,
\* otherwise the rest runs with the value returned
Then(r, F(_)) == IF IsThrown(r) THEN r ELSE F(r.v)

\* null / undefined where a schema is expected
Null == [null |-> TRUE]

Has(schema, f) == f \in DOMAIN schema
\* schema.type, "" when the node has none
TypeOf(schema) == IF Has(schema, "type") THEN schema.type ELSE ""
\* schema.$ref is truthy
HasRef(schema) == Has(schema, "ref") /\ schema.ref # <<>>
\* a[i] of a JavaScript array: undefined beyond its end
At(a, i) == IF i \in 1..Len(a) THEN a[i] ELSE Null

\* the tokens of a string, joined into the string they spell
RECURSIVE Spell(_)
Spell(tokens) == IF tokens = <<>> THEN "" ELSE Head(tokens) \o Spell(Tail(tokens))

\* ref.split("/").pop()
lastSegment(ref) == LET parts == split(ref, "/") IN Spell(parts[Len(parts)])

getSchemaFromRef(doc, ref) ==
  LET refName == lastSegment(ref)
  IN IF refName = "" THEN Null
     ELSE IF refName \in DOMAIN doc.schemas THEN doc.schemas[refName]
     ELSE Null

resolveRef(doc, schema) ==
  IF schema = Null THEN Null
  ELSE IF ~HasRef(schema) THEN schema
  ELSE LET target == getSchemaFromRef(doc, schema.ref)
       IN IF target # Null THEN target ELSE schema

\* the name a reference carries; "" stands for null (every caller only
\* tests the result for truthiness)
getRefName(schema) ==
  IF schema = Null \/ ~Has(schema, "ref") THEN "" ELSE lastSegment(schema.ref)

\* schema.anyOf || schema.oneOf || schema.allOf (an empty array is truthy)
HasVariants3(schema) == Has(schema, "anyOf") \/ Has(schema, "oneOf") \/ Has(schema, "allOf")
Variants3(schema) ==
  IF Has(schema, "anyOf") THEN schema.anyOf
  ELSE IF Has(schema, "oneOf") THEN schema.oneOf
  ELSE schema.allOf
\* schema.anyOf || schema.oneOf
HasVariants2(schema) == Has(schema, "anyOf") \/ Has(schema, "oneOf")
Variants2(schema) == IF Has(schema, "anyOf") THEN schema.anyOf ELSE schema.oneOf

\* variants.filter((item) => item?.type !== "null")
RECURSIVE filterNonNull(_)
filterNonNull(variants) ==
  IF variants = <<>> THEN <<>>
  ELSE IF TypeOf(Head(variants)) # "null"
       THEN <<Head(variants)>> \o filterNonNull(Tail(variants))
  ELSE filterNonNull(Tail(variants))

\* variants.find((item) => item.type !== "null"), Null when there is none
findNonNull(variants) == At(filterNonNull(variants), 1)

\* variants.find((item) => item.$ref), Null when there is none
RECURSIVE findRefItem(_)
findRefItem(variants) ==
  IF variants = <<>> THEN Null
  ELSE IF HasRef(Head(variants)) THEN Head(variants)
  ELSE findRefItem(Tail(variants))

RECURSIVE getDescription(_, _, _)
RECURSIVE firstDescription(_, _, _, _)
getDescription(doc, schema, d) ==
  IF d = 0 THEN Thrown
  ELSE IF schema = Null THEN Ok("")
  ELSE IF Has(schema, "description") /\ schema.description # "" THEN Ok(schema.description)
  ELSE IF /\ Has(schema, "allOf")
          /\ At(schema.allOf, 2) # Null
          /\ Has(At(schema.allOf, 2), "description")
          /\ At(schema.allOf, 2).description # ""
       THEN Ok(schema.allOf[2].description)
  ELSE IF HasRef(schema) /\ resolveRef(doc, schema) # schema
       THEN getDescription(doc, resolveRef(doc, schema), d - 1)
  ELSE IF HasVariants3(schema) THEN firstDescription(doc, Variants3(schema), 1, d - 1)
  ELSE Ok("")
\* the loop over the variants: the first non-empty description
firstDescription(doc, variants, i, d) ==
  IF i > Len(variants) THEN Ok("")
  ELSE LET desc == getDescription(doc, variants[i], d)
       IN IF IsThrown(desc) THEN desc
          ELSE IF desc.v # "" THEN desc
          ELSE firstDescription(doc, variants, i + 1, d)

\* getTypeLabel with the reference rule dropped: a reference is labelled as
\* its target is
RECURSIVE getTypeLabelDeref(_, _, _)
getTypeLabelDeref(doc, schema, d) ==
  IF d = 0 THEN Thrown
  ELSE IF schema = Null THEN Ok("unknown")
  ELSE IF HasRef(schema) /\ resolveRef(doc, schema) # schema
       THEN getTypeLabelDeref(doc, resolveRef(doc, schema), d - 1)
  ELSE IF Has(schema, "properties") \/ Has(schema, "additionalProperties") THEN Ok("object")
  ELSE IF Has(schema, "items") THEN getTypeLabelDeref(doc, schema.items, d - 1)
  ELSE IF TypeOf(schema) # "" THEN Ok(schema.type)
  ELSE Ok("unknown")

\* getTypeLabel with anyOf treated like oneOf: the label of the first branch
RECURSIVE getTypeLabelFirstBranch(_, _, _)
getTypeLabelFirstBranch(doc, schema, d) ==
  IF d = 0 THEN Thrown
  ELSE IF schema = Null THEN Ok("unknown")
  ELSE IF HasRef(schema) THEN Ok(IF getRefName(schema) # "" THEN getRefName(schema) ELSE "unknown")
  ELSE IF Has(schema, "properties") \/ Has(schema, "additionalProperties") THEN Ok("object")
  ELSE IF Has(schema, "items") THEN getTypeLabelFirstBranch(doc, schema.items, d - 1)
  ELSE IF TypeOf(schema) # "" THEN Ok(schema.type)
  ELSE IF Has(schema, "allOf") /\ findRefItem(schema.allOf) # Null
       THEN Ok(IF getRefName(findRefItem(schema.allOf)) # ""
               THEN getRefName(findRefItem(schema.allOf)) ELSE "object")
  ELSE IF HasVariants2(schema)
       THEN LET label == getTypeLabelFirstBranch(doc, At(Variants2(schema), 1), d - 1)
            IN IF IsThrown(label) THEN label
               ELSE Ok(IF label.v # "" THEN label.v ELSE "unknown")
  ELSE Ok("unknown")

RECURSIVE getTypeLabel(_, _, _)
getTypeLabel(doc, schema, d) ==
  IF d = 0 THEN Thrown
  ELSE IF schema = Null THEN Ok("unknown")
  ELSE IF HasRef(schema) THEN Ok(IF getRefName(schema) # "" THEN getRefName(schema) ELSE "unknown")
  ELSE IF Has(schema, "properties") \/ Has(schema, "additionalProperties") THEN Ok("object")
  ELSE IF Has(schema, "items") THEN getTypeLabel(doc, schema.items, d - 1)
  ELSE IF TypeOf(schema) # "" THEN Ok(schema.type)
  ELSE IF Has(schema, "allOf") /\ findRefItem(schema.allOf) # Null
       THEN Ok(IF getRefName(findRefItem(schema.allOf)) # ""
               THEN getRefName(findRefItem(schema.allOf)) ELSE "object")
  ELSE IF Has(schema, "anyOf")
       THEN LET label == getTypeLabel(doc, findNonNull(schema.anyOf), d - 1)
            IN IF IsThrown(label) THEN label
               ELSE Ok(IF label.v # "" THEN label.v ELSE "unknown")
  ELSE IF Has(schema, "oneOf")
       THEN LET label == getTypeLabel(doc, At(schema.oneOf, 1), d - 1)
            IN IF IsThrown(label) THEN label
               ELSE Ok(IF label.v # "" THEN label.v ELSE "unknown")
  ELSE Ok("unknown")

RECURSIVE getUnionVariants(_, _, _)
RECURSIVE flattenVariants(_, _, _, _)
getUnionVariants(doc, schema, d) ==
  IF d = 0 THEN Thrown
  ELSE IF schema = Null THEN Ok(<<>>)
  ELSE IF HasRef(schema) /\ resolveRef(doc, schema) # schema
       THEN getUnionVariants(doc, resolveRef(doc, schema), d - 1)
  ELSE IF HasVariants2(schema)
       THEN flattenVariants(doc, filterNonNull(Variants2(schema)), 1, d - 1)
  ELSE Ok(<<>>)
\* the loop that builds `flattened` from nonNull[i..]
flattenVariants(doc, nonNull, i, d) ==
  IF i > Len(nonNull) THEN Ok(<<>>)
  ELSE LET nested == getUnionVariants(doc, nonNull[i], d)
       IN IF IsThrown(nested) THEN nested
          ELSE LET rest == flattenVariants(doc, nonNull, i + 1, d)
               IN IF IsThrown(rest) THEN rest
                  ELSE Ok((IF Len(nested.v) > 0 THEN nested.v ELSE <<nonNull[i]>>) \o rest.v)

RECURSIVE getInlineable(_, _, _)
RECURSIVE someInlineable(_, _, _, _)
getInlineable(doc, schema, d) ==
  IF d = 0 THEN Thrown
  ELSE IF schema = Null THEN Ok(FALSE)
  ELSE IF Has(schema, "inlineable") /\ schema.inlineable = TRUE THEN Ok(TRUE)
  ELSE IF HasRef(schema) THEN getInlineable(doc, resolveRef(doc, schema), d - 1)
  ELSE IF HasVariants3(schema) THEN someInlineable(doc, Variants3(schema), 1, d - 1)
  ELSE Ok(FALSE)
\* variants.some(...)
someInlineable(doc, variants, i, d) ==
  IF i > Len(variants) THEN Ok(FALSE)
  ELSE LET r == getInlineable(doc, variants[i], d)
       IN IF IsThrown(r) THEN r
          ELSE IF r.v THEN r
          ELSE someInlineable(doc, variants, i + 1, d)

RECURSIVE getUnionTitle(_, _, _)
RECURSIVE firstUnionTitle(_, _, _, _)
getUnionTitle(doc, schema, d) ==
  IF d = 0 THEN Thrown
  ELSE IF schema = Null THEN Ok("")
  ELSE IF Has(schema, "unionTitle") /\ schema.unionTitle # "" THEN Ok(schema.unionTitle)
  ELSE IF HasRef(schema) THEN getUnionTitle(doc, resolveRef(doc, schema), d - 1)
  ELSE IF HasVariants2(schema)
       THEN firstUnionTitle(doc, filterNonNull(Variants2(schema)), 1, d - 1)
  ELSE Ok("")
firstUnionTitle(doc, nonNull, i, d) ==
  IF i > Len(nonNull) THEN Ok("")
  ELSE LET title == getUnionTitle(doc, nonNull[i], d)
       IN IF IsThrown(title) THEN title
          ELSE IF title.v # "" THEN title
          ELSE firstUnionTitle(doc, nonNull, i + 1, d)

\* "no property map": getSchemaProperties returned null
NoProps == [none |-> TRUE]
IsNoProps(r) == "none" \in DOMAIN r

RECURSIVE getSchemaProperties(_, _, _)
RECURSIVE firstProperties(_, _, _, _)
RECURSIVE propertiesOfBranches(_, _, _, _)
getSchemaProperties(doc, schema, d) ==
  IF d = 0 THEN Thrown
  ELSE IF schema = Null THEN NoProps
  ELSE IF HasRef(schema) THEN getSchemaProperties(doc, resolveRef(doc, schema), d - 1)
  ELSE IF TypeOf(schema) = "object" /\ Has(schema, "properties") THEN Ok(schema.properties)
  ELSE IF TypeOf(schema) = "array" /\ Has(schema, "items")
       THEN getSchemaProperties(doc, schema.items, d - 1)
  ELSE propertiesOfBranches(doc, schema, <<"allOf", "anyOf", "oneOf">>, d - 1)
\* the three loops, over allOf, then anyOf, then oneOf
propertiesOfBranches(doc, schema, keywords, d) ==
  IF keywords = <<>> THEN NoProps
  ELSE IF ~Has(schema, Head(keywords))
       THEN propertiesOfBranches(doc, schema, Tail(keywords), d)
  ELSE LET props == firstProperties(doc, schema[Head(keywords)], 1, d)
       IN IF IsNoProps(props)
          THEN propertiesOfBranches(doc, schema, Tail(keywords), d)
          ELSE props
\* one loop: the first branch that has a property map
firstProperties(doc, items, i, d) ==
  IF i > Len(items) THEN NoProps
  ELSE LET props == getSchemaProperties(doc, items[i], d)
       IN IF IsNoProps(props) THEN firstProperties(doc, items, i + 1, d) ELSE props

RECURSIVE getSchemaRequired(_, _, _)
RECURSIVE firstRequired(_, _, _, _)
RECURSIVE requiredOfBranches(_, _, _, _)
getSchemaRequired(doc, schema, d) ==
  IF d = 0 THEN Thrown
  ELSE IF schema = Null THEN Ok(<<>>)
  ELSE IF HasRef(schema) THEN getSchemaRequired(doc, resolveRef(doc, schema), d - 1)
  ELSE IF TypeOf(schema) = "object"
       THEN Ok(IF Has(schema, "required") THEN schema.required ELSE <<>>)
  ELSE IF TypeOf(schema) = "array" /\ Has(schema, "items")
       THEN getSchemaRequired(doc, schema.items, d - 1)
  ELSE requiredOfBranches(doc, schema, <<"allOf", "anyOf", "oneOf">>, d - 1)
requiredOfBranches(doc, schema, keywords, d) ==
  IF keywords = <<>> THEN Ok(<<>>)
  ELSE IF ~Has(schema, Head(keywords))
       THEN requiredOfBranches(doc, schema, Tail(keywords), d)
  ELSE LET req == firstRequired(doc, schema[Head(keywords)], 1, d)
       IN IF IsThrown(req) THEN req
          ELSE IF Len(req.v) > 0 THEN req
          ELSE requiredOfBranches(doc, schema, Tail(keywords), d)
\* one loop: the first branch with a non-empty required list
firstRequired(doc, items, i, d) ==
  IF i > Len(items) THEN Ok(<<>>)
  ELSE LET req == getSchemaRequired(doc, items[i], d)
       IN IF IsThrown(req) THEN req
          ELSE IF Len(req.v) > 0 THEN req
          ELSE firstRequired(doc, items, i + 1, d)

PRIMITIVE_TYPES == {"string", "number", "integer", "boolean", "null"}

\* isSchemaComplex with every array that has items complex, whatever the
\* items are
RECURSIVE isSchemaComplexArrays(_, _, _)
isSchemaComplexArrays(doc, schema, d) ==
  IF d = 0 THEN Thrown
  ELSE IF schema = Null THEN Ok(FALSE)
  ELSE IF HasRef(schema) THEN isSchemaComplexArrays(doc, resolveRef(doc, schema), d - 1)
  ELSE IF HasVariants3(schema) THEN Ok(TRUE)
  ELSE IF TypeOf(schema) = "object" THEN Ok(TRUE)
  ELSE IF Has(schema, "properties") THEN Ok(TRUE)
  ELSE Ok(Has(schema, "items"))

RECURSIVE isSchemaComplex(_, _, _)
isSchemaComplex(doc, schema, d) ==
  IF d = 0 THEN Thrown
  ELSE IF schema = Null THEN Ok(FALSE)
  ELSE IF HasRef(schema) THEN isSchemaComplex(doc, resolveRef(doc, schema), d - 1)
  ELSE IF HasVariants3(schema) THEN Ok(TRUE)
  ELSE IF TypeOf(schema) = "array"
       THEN isSchemaComplex(doc, IF Has(schema, "items") THEN schema.items ELSE Null, d - 1)
  ELSE IF TypeOf(schema) = "object" THEN Ok(TRUE)
  ELSE IF Has(schema, "properties") THEN Ok(TRUE)
  ELSE IF TypeOf(schema) # "" /\ TypeOf(schema) \in PRIMITIVE_TYPES THEN Ok(FALSE)
  ELSE Ok(Has(schema, "items"))

RECURSIVE isArraySchema(_, _, _)
RECURSIVE someArraySchema(_, _, _, _)
isArraySchema(doc, schema, d) ==
  IF d = 0 THEN Thrown
  ELSE IF schema = Null THEN Ok(FALSE)
  ELSE IF HasRef(schema) THEN isArraySchema(doc, resolveRef(doc, schema), d - 1)
  ELSE IF TypeOf(schema) = "array" \/ Has(schema, "items") THEN Ok(TRUE)
  ELSE IF HasVariants3(schema) THEN someArraySchema(doc, Variants3(schema), 1, d - 1)
  ELSE Ok(FALSE)
someArraySchema(doc, variants, i, d) ==
  IF i > Len(variants) THEN Ok(FALSE)
  ELSE LET r == isArraySchema(doc, variants[i], d)
       IN IF IsThrown(r) THEN r
          ELSE IF r.v THEN r
          ELSE someArraySchema(doc, variants, i + 1, d)

\* values.includes(value)
includes(values, value) == \E i \in 1..Len(values) : values[i] = value

\* for (const value of itemValues) if (!values.includes(value)) values.push(value)
RECURSIVE pushNew(_, _)
pushNew(values, itemValues) ==
  IF itemValues = <<>> THEN values
  ELSE pushNew(IF includes(values, Head(itemValues)) THEN values
               ELSE Append(values, Head(itemValues)),
               Tail(itemValues))

\* a getEnumValues that looks for values in the first property of an object
RECURSIVE getEnumValuesIntoProperties(_, _, _)
getEnumValuesIntoProperties(doc, schema, d) ==
  IF d = 0 THEN Thrown
  ELSE IF schema = Null THEN Ok(<<>>)
  ELSE IF HasRef(schema) THEN getEnumValuesIntoProperties(doc, resolveRef(doc, schema), d - 1)
  ELSE IF Has(schema, "enum") THEN Ok(schema.enum)
  ELSE IF Has(schema, "properties") /\ Len(schema.properties) > 0
       THEN getEnumValuesIntoProperties(doc, schema.properties[1].schema, d - 1)
  ELSE Ok(<<>>)

RECURSIVE getEnumValues(_, _, _)
RECURSIVE collectEnumValues(_, _, _, _, _)
getEnumValues(doc, schema, d) ==
  IF d = 0 THEN Thrown
  ELSE IF schema = Null THEN Ok(<<>>)
  ELSE IF HasRef(schema) THEN getEnumValues(doc, resolveRef(doc, schema), d - 1)
  ELSE IF TypeOf(schema) = "array" /\ Has(schema, "items")
       THEN getEnumValues(doc, schema.items, d - 1)
  ELSE IF Has(schema, "enum") THEN Ok(schema.enum)
  ELSE IF HasVariants3(schema) THEN collectEnumValues(doc, Variants3(schema), 1, <<>>, d - 1)
  ELSE Ok(<<>>)
\* the loop over the variants, `values` being what was gathered so far
collectEnumValues(doc, variants, i, values, d) ==
  IF i > Len(variants) THEN Ok(values)
  ELSE LET itemValues == getEnumValues(doc, variants[i], d)
       IN IF IsThrown(itemValues) THEN itemValues
          ELSE collectEnumValues(doc, variants, i + 1, pushNew(values, itemValues.v), d)

\* x-enumDescriptions is the ordered list of its [value, text] entries
RECURSIVE getEnumDescriptions(_, _, _)
RECURSIVE firstEnumDescriptions(_, _, _, _)
getEnumDescriptions(doc, schema, d) ==
  IF d = 0 THEN Thrown
  ELSE IF schema = Null THEN Ok(<<>>)
  ELSE IF HasRef(schema) THEN getEnumDescriptions(doc, resolveRef(doc, schema), d - 1)
  ELSE IF TypeOf(schema) = "array" /\ Has(schema, "items")
       THEN getEnumDescriptions(doc, schema.items, d - 1)
  ELSE IF Has(schema, "enumDescriptions") THEN Ok(schema.enumDescriptions)
  ELSE IF HasVariants3(schema) THEN firstEnumDescriptions(doc, Variants3(schema), 1, d - 1)
  ELSE Ok(<<>>)
firstEnumDescriptions(doc, variants, i, d) ==
  IF i > Len(variants) THEN Ok(<<>>)
  ELSE LET desc == getEnumDescriptions(doc, variants[i], d)
       IN IF IsThrown(desc) THEN desc
          ELSE IF Len(desc.v) > 0 THEN desc
          ELSE firstEnumDescriptions(doc, variants, i + 1, d)

(***************************************************************************)
(* The reference index: rows, union variants, collector, section builder.  *)
(*                                                                         *)
(* A Map is the list of its entries in insertion order.  A section id is   *)
(* never empty, so "" stands for a null sectionId / typeLinkId / name.     *)
(***************************************************************************)

\* Map.prototype.has / get on a list of entries keyed by `name`
mapHas(entries, name) == \E i \in 1..Len(entries) : entries[i].name = name
mapGet(entries, name) == entries[CHOOSE i \in 1..Len(entries) : entries[i].name = name]

\* sections.byName.get(refName)?.id ?? null, for a truthy refName
\* a lookup that sees only the name registered first
sectionIdOfFirstEntry(byName, refName) ==
  IF refName # "" /\ byName # <<>> /\ byName[1].name = refName THEN byName[1].id ELSE ""

sectionIdOf(byName, refName) ==
  IF refName # "" /\ mapHas(byName, refName) THEN mapGet(byName, refName).id ELSE ""

\* The strings the model sorts, in the order localeCompare gives them
\* (punctuation before letters, letters without regard to case first, a
\* prefix before its extensions).
Collation == <<"\"a\"", "\"b\"", "A", "array of", "B", "boolean", "C", "closed",
               "D", "enum", "integer", "Missing", "null", "number", "object",
               "open", "string", "unknown">>
collationRank(s) == CHOOSE i \in 1..Len(Collation) : Collation[i] = s
\* a.localeCompare(b) <= 0
localeLeq(a, b) == collationRank(a) <= collationRank(b)

\* Array.prototype.sort((a, b) => a[key].localeCompare(b[key])): the sort is
\* stable, so equal keys keep their order.  Insertion of x after the last
\* element that does not sort after it.
RECURSIVE insertSorted(_, _, _)
insertSorted(sorted, x, key) ==
  IF sorted = <<>> THEN <<x>>
  ELSE IF localeLeq(sorted[Len(sorted)][key], x[key]) THEN Append(sorted, x)
  ELSE Append(insertSorted(SubSeq(sorted, 1, Len(sorted) - 1), x, key), sorted[Len(sorted)])
RECURSIVE sortFrom(_, _, _, _)
sortFrom(list, i, sorted, key) ==
  IF i > Len(list) THEN sorted
  ELSE sortFrom(list, i + 1, insertSorted(sorted, list[i], key), key)
\* a sort that leaves the list as it is
sortByNothing(list, key) == list
sortBy(list, key) == sortFrom(list, 1, <<>>, key)

RECURSIVE getRefNameDeep(_)
RECURSIVE firstRefNameDeep(_, _)
getRefNameDeep(schema) ==
  IF schema = Null THEN ""
  ELSE IF HasRef(schema) THEN getRefName(schema)
  ELSE IF TypeOf(schema) = "array" /\ Has(schema, "items") THEN getRefNameDeep(schema.items)
  ELSE IF Has(schema, "allOf") THEN firstRefNameDeep(schema.allOf, 1)
  ELSE ""
firstRefNameDeep(items, i) ==
  IF i > Len(items) THEN ""
  ELSE IF getRefNameDeep(items[i]) # "" THEN getRefNameDeep(items[i])
  ELSE firstRefNameDeep(items, i + 1)

\* a getSchemaKind with no rule for arrays: an array is an object when it is
\* complex
RECURSIVE getSchemaKindNoArrayRule(_, _, _)
getSchemaKindNoArrayRule(doc, schema, d) ==
  IF d = 0 THEN Thrown
  ELSE IF schema = Null THEN Ok("")
  ELSE IF HasRef(schema) THEN getSchemaKindNoArrayRule(doc, resolveRef(doc, schema), d - 1)
  ELSE IF HasVariants2(schema) THEN Ok("union")
  ELSE Then(getEnumValues(doc, schema, d - 1), LAMBDA enumValues :
         IF Len(enumValues) > 0 THEN Ok("enum")
         ELSE IF TypeOf(schema) = "object" \/ Has(schema, "properties") THEN Ok("object")
         ELSE Then(isSchemaComplex(doc, schema, d - 1), LAMBDA complex :
                Ok(IF complex THEN "object" ELSE "")))

\* the section kind, "" for null
RECURSIVE getSchemaKind(_, _, _)
getSchemaKind(doc, schema, d) ==
  IF d = 0 THEN Thrown
  ELSE IF schema = Null THEN Ok("")
  ELSE IF HasRef(schema) THEN getSchemaKind(doc, resolveRef(doc, schema), d - 1)
  ELSE IF HasVariants2(schema) THEN Ok("union")
  ELSE Then(getEnumValues(doc, schema, d - 1), LAMBDA enumValues :
         IF Len(enumValues) > 0 THEN Ok("enum")
         ELSE IF TypeOf(schema) = "object" \/ Has(schema, "properties") THEN Ok("object")
         ELSE IF TypeOf(schema) = "array" \/ Has(schema, "items")
              THEN getSchemaKind(doc, IF Has(schema, "items") THEN schema.items ELSE Null, d - 1)
         ELSE Then(isSchemaComplex(doc, schema, d - 1), LAMBDA complex :
                Ok(IF complex THEN "object" ELSE "")))

getTypeClass(doc, schema, d) ==
  IF d = 0 THEN Thrown
  ELSE IF schema = Null THEN Ok("object")
  ELSE Then(getEnumValues(doc, schema, d - 1), LAMBDA enumValues :
         IF Len(enumValues) > 0 THEN Ok("enum")
         ELSE Then(getTypeLabel(doc, schema, d - 1), LAMBDA label :
                Ok(IF label \in {"string", "boolean", "number", "integer"}
                   THEN label ELSE "object")))

getVariantLabel(doc, variant, d) ==
  IF d = 0 THEN Thrown
  ELSE Then(getEnumValues(doc, variant, d - 1), LAMBDA enumValues :
         IF getRefNameDeep(variant) # "" THEN Ok(getRefNameDeep(variant))
         ELSE IF Len(enumValues) = 1 THEN Ok("\"" \o enumValues[1] \o "\"")
         ELSE IF Len(enumValues) > 1 THEN Ok("enum")
         ELSE getTypeLabel(doc, variant, d - 1))

\* itemVariants.map(...) of expandUnionVariantEntries: the nested group
RECURSIVE groupVariantsOf(_, _, _, _, _)
groupVariantsOf(doc, itemVariants, i, byName, d) ==
  IF i > Len(itemVariants) THEN Ok(<<>>)
  ELSE Then(getVariantLabel(doc, itemVariants[i], d), LAMBDA label :
       Then(getTypeClass(doc, itemVariants[i], d), LAMBDA typeClass :
       Then(groupVariantsOf(doc, itemVariants, i + 1, byName, d), LAMBDA rest :
         Ok(<<[label |-> label,
               array |-> FALSE,
               sectionId |-> sectionIdOf(byName, getRefNameDeep(itemVariants[i])),
               typeClass |-> typeClass]>> \o rest))))

\* expandUnionVariantEntries that never groups: an array variant is one
\* entry marked array, whatever its items are
expandUnionVariantEntriesNoGroup(doc, schema, byName, d) ==
  IF d = 0 THEN Thrown
  ELSE IF TypeOf(resolveRef(doc, schema)) = "array" /\ Has(resolveRef(doc, schema), "items")
       THEN Ok(<<[schema |-> schema, array |-> TRUE]>>)
  ELSE Then(isArraySchema(doc, schema, d - 1), LAMBDA array :
         Ok(<<[schema |-> schema, array |-> array]>>))

\* An entry has the fields labelOverride, typeClassOverride and groupVariants
\* only when the code sets them.
expandUnionVariantEntries(doc, schema, byName, d) ==
  IF d = 0 THEN Thrown
  ELSE IF TypeOf(resolveRef(doc, schema)) = "array" /\ Has(resolveRef(doc, schema), "items")
       THEN Then(getUnionVariants(doc, resolveRef(doc, schema).items, d - 1),
                 LAMBDA itemVariants :
              IF Len(itemVariants) > 0
              THEN Then(groupVariantsOf(doc, itemVariants, 1, byName, d - 1),
                        LAMBDA groupVariants :
                     Ok(<<[schema |-> schema,
                           array |-> FALSE,
                           labelOverride |-> "array of",
                           typeClassOverride |-> "object",
                           groupVariants |-> groupVariants]>>))
              ELSE Ok(<<[schema |-> schema, array |-> TRUE]>>))
  ELSE Then(isArraySchema(doc, schema, d - 1), LAMBDA array :
         Ok(<<[schema |-> schema, array |-> array]>>))

\* variantSchemas.flatMap((variant) => expandUnionVariantEntries(...))
RECURSIVE expandAll(_, _, _, _, _)
expandAll(doc, variantSchemas, i, byName, d) ==
  IF i > Len(variantSchemas) THEN Ok(<<>>)
  ELSE Then(expandUnionVariantEntries(doc, variantSchemas[i], byName, d), LAMBDA entries :
       Then(expandAll(doc, variantSchemas, i + 1, byName, d), LAMBDA rest :
         Ok(entries \o rest)))

\* the variant descriptor of one entry.  groupVariants is a field of the
\* descriptor only when the entry carries a group.
variantOf(entry, label, typeClass, byName) ==
  IF Has(entry, "groupVariants")
  THEN [label |-> label,
        array |-> entry.array,
        sectionId |-> sectionIdOf(byName, getRefNameDeep(entry.schema)),
        typeClass |-> typeClass,
        groupVariants |-> entry.groupVariants]
  ELSE [label |-> label,
        array |-> entry.array,
        sectionId |-> sectionIdOf(byName, getRefNameDeep(entry.schema)),
        typeClass |-> typeClass]

\* entries.map(...): one variant descriptor per entry
RECURSIVE variantsOfEntries(_, _, _, _, _)
variantsOfEntries(doc, entries, i, byName, d) ==
  IF i > Len(entries) THEN Ok(<<>>)
  ELSE Then(IF Has(entries[i], "labelOverride") THEN Ok(entries[i].labelOverride)
            ELSE getVariantLabel(doc, entries[i].schema, d), LAMBDA label :
       Then(IF Has(entries[i], "typeClassOverride") THEN Ok(entries[i].typeClassOverride)
            ELSE getTypeClass(doc, entries[i].schema, d), LAMBDA typeClass :
       Then(variantsOfEntries(doc, entries, i + 1, byName, d), LAMBDA rest :
         Ok(<<variantOf(entries[i], label, typeClass, byName)>> \o rest))))

buildUnionVariants(doc, schema, byName, d) ==
  IF d = 0 THEN Thrown
  ELSE Then(getUnionVariants(doc, schema, d - 1), LAMBDA variantSchemas :
       Then(expandAll(doc, variantSchemas, 1, byName, d - 1), LAMBDA entries :
         variantsOfEntries(doc, entries, 1, byName, d - 1)))

\* literalValue: String(enumValues[0]) for a single enum value, "" for null
literalValueOf(enumValues) == IF Len(enumValues) = 1 THEN enumValues[1] ELSE ""

\* a required set that has every name
requiredHasAlways(required, name) == TRUE

\* requiredSet.has(name)
requiredHas(required, name) == includes(required, name)

\* Object.entries(properties).map(...) of buildInlineRows, from entry i on
RECURSIVE inlineRowsFrom(_, _, _, _, _, _)
inlineRowsFrom(doc, properties, i, required, byName, d) ==
  IF i > Len(properties) THEN Ok(<<>>)
  ELSE Then(getEnumValues(doc, properties[i].schema, d), LAMBDA enumValues :
       Then(getEnumDescriptions(doc, properties[i].schema, d), LAMBDA enumDescriptions :
       Then(getTypeLabel(doc, properties[i].schema, d), LAMBDA type :
       Then(buildUnionVariants(doc, properties[i].schema, byName, d), LAMBDA unionVariants :
       Then(getDescription(doc, properties[i].schema, d), LAMBDA description :
       Then(isArraySchema(doc, properties[i].schema, d), LAMBDA array :
       Then(inlineRowsFrom(doc, properties, i + 1, required, byName, d), LAMBDA rest :
         Ok(<<[name |-> properties[i].name,
               type |-> IF Len(enumValues) > 0 THEN "enum" ELSE type,
               description |-> description,
               array |-> array,
               required |-> requiredHas(required, properties[i].name),
               enumValues |-> enumValues,
               enumDescriptions |-> enumDescriptions,
               literalValue |-> literalValueOf(enumValues),
               unionVariants |-> unionVariants]>> \o rest))))))))

\* buildInlineRows that never finds a property map
buildInlineRowsEmpty(doc, schema, byName, d) ==
  IF d = 0 THEN Thrown ELSE Ok(<<>>)

buildInlineRows(doc, schema, byName, d) ==
  IF d = 0 THEN Thrown
  ELSE LET properties == getSchemaProperties(doc, schema, d - 1)
       IN IF IsThrown(properties) THEN properties
          ELSE IF IsNoProps(properties) THEN Ok(<<>>)
          ELSE Then(getSchemaRequired(doc, schema, d - 1), LAMBDA required :
                 inlineRowsFrom(doc, properties.v, 1, required, byName, d - 1))

\* a collector that recurses into property values only
childrenOfPropertiesOnly(schema) ==
  IF Has(schema, "properties")
  THEN [i \in 1..Len(schema.properties) |-> schema.properties[i].schema] ELSE <<>>

\* the children collectRefSchemas recurses into, in the order it does:
\* property values, items, then the anyOf, oneOf and allOf branches
childrenOf(schema) ==
  (IF Has(schema, "properties")
   THEN [i \in 1..Len(schema.properties) |-> schema.properties[i].schema] ELSE <<>>)
  \o (IF Has(schema, "items") THEN <<schema.items>> ELSE <<>>)
  \o (IF Has(schema, "anyOf") THEN schema.anyOf ELSE <<>>)
  \o (IF Has(schema, "oneOf") THEN schema.oneOf ELSE <<>>)
  \o (IF Has(schema, "allOf") THEN schema.allOf ELSE <<>>)

\* collectRefSchemas without the cycle guard: it recurses into every
\* reference, whether or not its name is in the accumulator already
RECURSIVE collectRefSchemasNoGuard(_, _, _, _)
RECURSIVE collectChildrenNoGuard(_, _, _, _, _)
collectRefSchemasNoGuard(doc, schema, acc, d) ==
  IF d = 0 THEN Thrown
  ELSE IF schema = Null THEN Ok(acc)
  ELSE IF HasRef(schema)
       THEN IF getRefName(schema) # ""
            THEN collectRefSchemasNoGuard(doc, resolveRef(doc, schema),
                   IF mapHas(acc, getRefName(schema)) THEN acc
                   ELSE Append(acc, [name |-> getRefName(schema),
                                     schema |-> resolveRef(doc, schema)]), d - 1)
            ELSE Ok(acc)
  ELSE collectChildrenNoGuard(doc, childrenOf(schema), 1, acc, d - 1)
collectChildrenNoGuard(doc, children, i, acc, d) ==
  IF i > Len(children) THEN Ok(acc)
  ELSE Then(collectRefSchemasNoGuard(doc, children[i], acc, d), LAMBDA after :
         collectChildrenNoGuard(doc, children, i + 1, after, d))

\* acc is the Map, as the list of its [name, schema] entries
RECURSIVE collectRefSchemas(_, _, _, _)
RECURSIVE collectChildren(_, _, _, _, _)
collectRefSchemas(doc, schema, acc, d) ==
  IF d = 0 THEN Thrown
  ELSE IF schema = Null THEN Ok(acc)
  ELSE IF HasRef(schema)
       THEN IF getRefName(schema) # "" /\ ~mapHas(acc, getRefName(schema))
            THEN collectRefSchemas(doc, resolveRef(doc, schema),
                   Append(acc, [name |-> getRefName(schema),
                                schema |-> resolveRef(doc, schema)]), d - 1)
            ELSE Ok(acc)
  ELSE collectChildren(doc, childrenOf(schema), 1, acc, d - 1)
\* the loops over the children, each call working on the accumulator the
\* previous one left
collectChildren(doc, children, i, acc, d) ==
  IF i > Len(children) THEN Ok(acc)
  ELSE Then(collectRefSchemas(doc, children[i], acc, d), LAMBDA after :
         collectChildren(doc, children, i + 1, after, d))

\* for (const [name, refSchema] of refs) if (!merged.has(name)) merged.set(...)
RECURSIVE mergeRefs(_, _)
mergeRefs(merged, refs) ==
  IF refs = <<>> THEN merged
  ELSE mergeRefs(IF mapHas(merged, Head(refs).name) THEN merged
                 ELSE Append(merged, Head(refs)),
                 Tail(refs))

\* schemas is the array of roots; Null entries are skipped
RECURSIVE collectRefsFrom(_, _, _, _, _)
collectRefsFrom(doc, schemas, i, merged, d) ==
  IF i > Len(schemas) THEN Ok(merged)
  ELSE IF schemas[i] = Null THEN collectRefsFrom(doc, schemas, i + 1, merged, d)
  ELSE Then(collectRefSchemas(doc, schemas[i], <<>>, d), LAMBDA refs :
         collectRefsFrom(doc, schemas, i + 1, mergeRefs(merged, refs), d))

collectRefsFromSchemas(doc, schemas, d) ==
  IF d = 0 THEN Thrown ELSE collectRefsFrom(doc, schemas, 1, <<>>, d - 1)

\* a section id that leaves the kind out
sectionIdNameOnly(kind, name) == name

\* `${kind}-${name}`
sectionId(kind, name) == kind \o "-" \o name

\* the first loop without the `getInlineable` skip
RECURSIVE sectionEntriesFromNoSkip(_, _, _, _, _)
sectionEntriesFromNoSkip(doc, refEntries, i, sectionEntries, d) ==
  IF i > Len(refEntries) THEN Ok(sectionEntries)
  ELSE Then(getSchemaKind(doc, refEntries[i].schema, d), LAMBDA kind :
         IF kind = "" \/ mapHas(sectionEntries, refEntries[i].name)
         THEN sectionEntriesFromNoSkip(doc, refEntries, i + 1, sectionEntries, d)
         ELSE sectionEntriesFromNoSkip(doc, refEntries, i + 1,
                Append(sectionEntries,
                       [name |-> refEntries[i].name, schema |-> refEntries[i].schema,
                        kind |-> kind, id |-> sectionId(kind, refEntries[i].name)]), d))

\* the first loop over refEntries[i..]: sectionEntries, from which byName
\* follows entry by entry
RECURSIVE sectionEntriesFrom(_, _, _, _, _)
sectionEntriesFrom(doc, refEntries, i, sectionEntries, d) ==
  IF i > Len(refEntries) THEN Ok(sectionEntries)
  ELSE Then(getInlineable(doc, refEntries[i].schema, d), LAMBDA inlineable :
         IF inlineable THEN sectionEntriesFrom(doc, refEntries, i + 1, sectionEntries, d)
         ELSE Then(getSchemaKind(doc, refEntries[i].schema, d), LAMBDA kind :
                IF kind = "" \/ mapHas(sectionEntries, refEntries[i].name)
                THEN sectionEntriesFrom(doc, refEntries, i + 1, sectionEntries, d)
                ELSE sectionEntriesFrom(doc, refEntries, i + 1,
                       Append(sectionEntries,
                              [name |-> refEntries[i].name,
                               schema |-> refEntries[i].schema,
                               kind |-> kind,
                               id |-> sectionId(kind, refEntries[i].name)]), d)))

\* byName after the first loop
byNameOf(sectionEntries) ==
  [i \in 1..Len(sectionEntries) |->
     [name |-> sectionEntries[i].name, id |-> sectionEntries[i].id,
      kind |-> sectionEntries[i].kind]]

\* the section built for one entry in the second loop
sectionOf(doc, entry, byName, d) ==
  Then(getDescription(doc, entry.schema, d), LAMBDA description :
    IF entry.kind = "enum"
    THEN Then(getEnumValues(doc, entry.schema, d), LAMBDA values :
         Then(getEnumDescriptions(doc, entry.schema, d), LAMBDA descriptions :
           Ok([kind |-> "enum", id |-> entry.id, name |-> entry.name,
               title |-> entry.name, description |-> description,
               values |-> values, descriptions |-> descriptions])))
    ELSE IF entry.kind = "object"
    THEN Then(buildInlineRows(doc, entry.schema, byName, d), LAMBDA rows :
           Ok([kind |-> "object", id |-> entry.id, name |-> entry.name,
               title |-> entry.name, description |-> description,
               rows |-> rows]))
    ELSE Then(getUnionTitle(doc, entry.schema, d), LAMBDA unionTitle :
         Then(getUnionVariants(doc, entry.schema, d), LAMBDA variantSchemas :
         Then(expandAll(doc, variantSchemas, 1, byName, d), LAMBDA variantEntries :
         Then(variantsOfEntries(doc, variantEntries, 1, byName, d), LAMBDA variants :
           Ok([kind |-> "union", id |-> entry.id, name |-> entry.name,
               title |-> IF unionTitle # "" THEN unionTitle ELSE entry.name,
               description |-> description,
               variants |-> sortBy(variants, "label")]))))))

\* the second loop over sectionEntries[i..]: the sections of kind `kind`, in
\* the order they are pushed
RECURSIVE sectionsOfKind(_, _, _, _, _, _)
sectionsOfKind(doc, sectionEntries, i, kind, byName, d) ==
  IF i > Len(sectionEntries) THEN Ok(<<>>)
  ELSE IF sectionEntries[i].kind # kind
       THEN sectionsOfKind(doc, sectionEntries, i + 1, kind, byName, d)
  ELSE Then(sectionOf(doc, sectionEntries[i], byName, d), LAMBDA section :
       Then(sectionsOfKind(doc, sectionEntries, i + 1, kind, byName, d), LAMBDA rest :
         Ok(<<section>> \o rest)))

\* refs is the Map name -> schema, as the list of its entries
buildSectionsFromRefs(doc, refs, d) ==
  IF d = 0 THEN Thrown
  ELSE Then(sectionEntriesFrom(doc, refs, 1, <<>>, d - 1), LAMBDA sectionEntries :
       Then(sectionsOfKind(doc, sectionEntries, 1, "enum", byNameOf(sectionEntries), d - 1),
            LAMBDA enums :
       Then(sectionsOfKind(doc, sectionEntries, 1, "object", byNameOf(sectionEntries), d - 1),
            LAMBDA objects :
       Then(sectionsOfKind(doc, sectionEntries, 1, "union", byNameOf(sectionEntries), d - 1),
            LAMBDA unions :
         Ok([enums |-> sortBy(enums, "name"),
             objects |-> sortBy(objects, "name"),
             unions |-> sortBy(unions, "name"),
             byName |-> byNameOf(sectionEntries)])))))

\* the enum arrays a call would write if it sorted, in place, the values of
\* the enum sections it returns: those of the named schemas that have an
\* `enum` of their own, which getEnumValues hands out as it is
enumArraysSortedInPlace(doc, sections) ==
  IF IsThrown(sections) THEN {}
  ELSE {sections.v.enums[i].name : i \in 1..Len(sections.v.enums)}
         \cap {n \in DOMAIN doc.schemas : Has(doc.schemas[n], "enum")}

\* The named schemas whose `enum` array a call writes in place: none.  Every
\* push, sort and Map.set of the code has as its target an array or map the
\* call created itself: `values` and `flattened` of the classifier, `acc`,
\* `merged`, `byName`, `sectionEntries`, `enums`, `objects`, `unions`, and
\* the `variants` array that `.map` returns.  The arrays of the document
\* that reach the result (schema.enum in a section's values and a row's
\* enumValues) are only read.
enumArraysWritten(doc, sections) == {}

\* the document after a call that wrote the enum arrays of `names` in place
documentAfter(doc, names) ==
  [schemas |->
     [n \in DOMAIN doc.schemas |->
        IF n \in names
        THEN [doc.schemas[n] EXCEPT
                !.enum = [i \in 1..Len(@) |->
                            sortBy([j \in 1..Len(@) |-> [value |-> @[j]]], "value")[i].value]]
        ELSE doc.schemas[n]]]

\* Object.entries(schema.properties).map(...) of buildParameterRows
RECURSIVE parameterRowsFrom(_, _, _, _, _, _)
parameterRowsFrom(doc, properties, i, required, byName, d) ==
  IF i > Len(properties) THEN Ok(<<>>)
  ELSE Then(getEnumValues(doc, properties[i].schema, d), LAMBDA enumValues :
       Then(getEnumDescriptions(doc, properties[i].schema, d), LAMBDA enumDescriptions :
       Then(getTypeLabel(doc, properties[i].schema, d), LAMBDA typeLabel :
       Then(getInlineable(doc, properties[i].schema, d), LAMBDA inlineable :
       Then(buildUnionVariants(doc, properties[i].schema, byName, d), LAMBDA unionVariants :
       Then(getDescription(doc, properties[i].schema, d), LAMBDA description :
       Then(isArraySchema(doc, properties[i].schema, d), LAMBDA array :
       Then(IF inlineable THEN buildInlineRows(doc, properties[i].schema, byName, d)
            ELSE Ok(<<>>), LAMBDA inlineRows :
       Then(parameterRowsFrom(doc, properties, i + 1, required, byName, d), LAMBDA rest :
         Ok(<<[name |-> properties[i].name,
               typeLabel |-> typeLabel,
               typeClass |-> IF Len(enumValues) > 0 THEN "enum" ELSE typeLabel,
               description |-> description,
               required |-> requiredHas(required, properties[i].name),
               array |-> array,
               enumValues |-> enumValues,
               enumDescriptions |-> enumDescriptions,
               literalValue |-> literalValueOf(enumValues),
               inlineable |-> inlineable,
               inlineRows |-> inlineRows,
               isUnion |-> Len(unionVariants) > 0,
               unionVariants |-> unionVariants,
               typeLinkId |-> IF ~inlineable /\ getRefNameDeep(properties[i].schema) # ""
                              THEN sectionIdOf(byName, getRefNameDeep(properties[i].schema))
                              ELSE ""]>> \o rest))))))))))

buildParameterRows(doc, schema, byName, d) ==
  IF d = 0 THEN Thrown
  ELSE IF schema = Null \/ ~Has(schema, "properties") THEN Ok(<<>>)
  ELSE parameterRowsFrom(doc, schema.properties, 1,
                         IF Has(schema, "required") THEN schema.required ELSE <<>>,
                         byName, d - 1)

buildReferenceIndex(doc, requestSchema, d) ==
  IF d = 0 THEN Thrown
  ELSE Then(collectRefsFromSchemas(doc, <<requestSchema>>, d - 1), LAMBDA refs :
       Then(buildSectionsFromRefs(doc, refs, d - 1), LAMBDA sections :
       Then(buildParameterRows(doc, requestSchema, sections.byName, d - 1),
            LAMBDA parameterRows :
         Ok([parameterRows |-> parameterRows, sections |-> sections]))))

buildReferenceSections(doc, schemas, d) ==
  IF d = 0 THEN Thrown
  ELSE Then(collectRefsFromSchemas(doc, schemas, d - 1), LAMBDA refs :
         buildSectionsFromRefs(doc, refs, d - 1))

(***************************************************************************)
(* schemaFormat.ts: labels of schemas and of union variants.  Schemas are  *)
(* JSON values here, as in resolve.ts, and the strings returned are JSON   *)
(* strings (JStr) or JNull for null.                                       *)
(***************************************************************************)
\* a JSON array
JArr(a) == [k |-> "arr", a |-> a]
\* the object with the fields of the record r
JRec(r) == JObj([key \in {<<n>> : n \in DOMAIN r} |-> r[key[1]]])
\* an object whose keys Object.keys must give in insertion order
JOrdered(entries) ==
  [k |-> "obj",
   f |-> [key \in {entries[i].key : i \in 1..Len(entries)} |->
            (CHOOSE e \in {entries[i] : i \in 1..Len(entries)} : e.key = key).value],
   keys |-> [i \in 1..Len(entries) |-> entries[i].key]]
\* v.name, undefined when v is no object or has no such key
get(v, name) == jsIndex(v, <<name>>)
\* a value in a condition: null, undefined and "" are falsy; the leaves of
\* the model are `true` and non-zero numbers
truthy(v) ==
  IF v.k \in {"null", "undefined"} THEN FALSE
  ELSE IF v.k = "str" THEN v.s # <<>>
  ELSE TRUE
\* v?.length of an array, 0 standing for undefined
lengthOf(v) == IF v.k = "arr" THEN Len(v.a) ELSE 0
\* a ?? b
coalesce(a, b) == IF a.k \in {"null", "undefined"} THEN b ELSE a
\* String(v) of a string or null
toStringJs(v) == IF v.k = "str" THEN v ELSE JStr(<<"null">>)
\* JSON.stringify(v) of a string or null
stringify(v) == IF v.k = "str" THEN JStr(<<"\"">> \o v.s \o <<"\"">>) ELSE JStr(<<"null">>)

\* the last index of sep in s, 0 when there is none
lastIndexOf(s, sep) ==
  IF \E i \in 1..Len(s) : s[i] = sep
  THEN CHOOSE i \in 1..Len(s) : s[i] = sep /\ \A j \in (i + 1)..Len(s) : s[j] # sep
  ELSE 0

\* refName of resolve.ts: ref.match(/#\/components\/schemas\/([^/]+)$/); the
\* pattern is not anchored at the start of the string
refName(ref) ==
  IF /\ lastIndexOf(ref, "/") >= 6
     /\ lastIndexOf(ref, "/") < Len(ref)
     /\ SubSeq(ref, lastIndexOf(ref, "/") - 5, lastIndexOf(ref, "/"))
          = <<"#", "/", "components", "/", "schemas", "/">>
  THEN JStr(decodePointerSegment(SubSeq(ref, lastIndexOf(ref, "/") + 1, Len(ref))))
  ELSE JNull

\* anyOf.filter((s) => s?.type !== "null")
nonNullOf(anyOf) == SelectSeq(anyOf, LAMBDA item : get(item, "type") # JStr(<<"null">>))

\* the `base` of splitNullableUnion
splitNullableUnionBase(schema) ==
  IF lengthOf(get(schema, "anyOf")) < 2 THEN schema
  ELSE IF Len(nonNullOf(get(schema, "anyOf").a)) = Len(get(schema, "anyOf").a) THEN schema
  ELSE IF Len(nonNullOf(get(schema, "anyOf").a)) = 1 THEN nonNullOf(get(schema, "anyOf").a)[1]
  ELSE [schema EXCEPT !.f[<<"anyOf">>] = JArr(nonNullOf(get(schema, "anyOf").a))]

\* the `nullable` of splitNullableUnion
splitNullableUnionNullable(schema) ==
  /\ lengthOf(get(schema, "anyOf")) >= 2
  /\ Len(nonNullOf(get(schema, "anyOf").a)) # Len(get(schema, "anyOf").a)

splitNullableUnion(schema) ==
  [base |-> splitNullableUnionBase(schema), nullable |-> splitNullableUnionNullable(schema)]

\* SchemaUnionInfo, or JNull
getUnionInfo(schema) ==
  IF lengthOf(get(schema, "oneOf")) > 0
  THEN [kind |-> "oneOf", variants |-> get(schema, "oneOf").a,
        discriminator |-> get(schema, "discriminator")]
  ELSE IF lengthOf(get(schema, "anyOf")) > 0
  THEN [kind |-> "anyOf", variants |-> get(schema, "anyOf").a,
        discriminator |-> get(schema, "discriminator")]
  ELSE JNull

\* schemaTypeLabel after `const s = derefSchema(doc, base)`; schemaTypeLabel
\* calls itself on `items`, so it takes the call depth it may still use
RECURSIVE schemaTypeLabel(_, _, _)
schemaTypeLabelOf(doc, s, d) ==
  IF getUnionInfo(s) # JNull THEN Ok(JStr(<<"union">>))
  ELSE IF get(s, "const").k # "undefined" THEN Ok(stringify(get(s, "const")))
  ELSE IF lengthOf(get(s, "enum")) > 0 THEN Ok(JStr(<<"enum">>))
  ELSE IF isRef(s) /\ truthy(get(s, "$ref"))
       THEN Ok(coalesce(refName(get(s, "$ref").s), JStr(<<"ref">>)))
  ELSE IF \/ get(s, "type") = JStr(<<"array">>)
          \/ get(s, "type").k = "undefined" /\ truthy(get(s, "items"))
       THEN IF truthy(get(s, "items"))
            THEN Then(schemaTypeLabel(doc, get(s, "items"), d - 1),
                      LAMBDA items : Ok(JStr(items.s \o <<"[]">>)))
            ELSE Ok(JStr(<<"unknown", "[]">>))
  ELSE IF \/ get(s, "type") = JStr(<<"object">>)
          \/ get(s, "type").k = "undefined" /\ truthy(get(s, "properties"))
       THEN Ok(JStr(<<"object">>))
  ELSE IF get(s, "type").k = "str" THEN Ok(get(s, "type"))
  ELSE Ok(JStr(<<"unknown">>))

schemaTypeLabel(doc, schema, d) ==
  IF d = 0 THEN Thrown
  ELSE schemaTypeLabelOf(doc, derefSchema(doc, splitNullableUnionBase(schema)), d)

\* schemaShortRef; the `$ref` values of the model are strings
schemaShortRef(doc, schema) ==
  IF isRef(derefSchema(doc, schema)) /\ truthy(get(derefSchema(doc, schema), "$ref"))
  THEN refName(get(derefSchema(doc, schema), "$ref").s)
  ELSE IF truthy(get(schema, "$ref")) THEN refName(get(schema, "$ref").s)
  ELSE JNull

schemaDisplayTitle(doc, schema) ==
  IF truthy(schemaShortRef(doc, schema)) THEN schemaShortRef(doc, schema)
  ELSE IF truthy(get(derefSchema(doc, schema), "title"))
       THEN get(derefSchema(doc, schema), "title")
  ELSE JNull

\* inferDiscriminatorValue after `const dpResolved = derefSchema(doc, dp)`
discriminatorValueOf(dpResolved) ==
  IF get(dpResolved, "const").k # "undefined" THEN toStringJs(get(dpResolved, "const"))
  ELSE IF lengthOf(get(dpResolved, "enum")) = 1 THEN toStringJs(get(dpResolved, "enum").a[1])
  ELSE JNull

\* discriminatorProp is a property name, a token sequence
inferDiscriminatorValue(doc, schema, discriminatorProp) ==
  IF ~truthy(get(derefSchema(doc, schema), "properties")) THEN JNull
  ELSE IF ~truthy(jsIndex(get(derefSchema(doc, schema), "properties"), discriminatorProp))
       THEN JNull
  ELSE discriminatorValueOf(
         derefSchema(doc, jsIndex(get(derefSchema(doc, schema), "properties"),
                                  discriminatorProp)))

\* union.variants.map((v) => schemaDisplayTitle(doc, v) ?? schemaTypeLabel(doc, v)
\* ?? "variant"), from variant i on
RECURSIVE titleLabelsFrom(_, _, _, _)
titleLabelsFrom(doc, variants, i, d) ==
  IF i > Len(variants) THEN Ok(<<>>)
  ELSE Then(IF schemaDisplayTitle(doc, variants[i]) # JNull
            THEN Ok(schemaDisplayTitle(doc, variants[i]))
            ELSE schemaTypeLabel(doc, variants[i], d), LAMBDA label :
       Then(titleLabelsFrom(doc, variants, i + 1, d), LAMBDA rest :
         Ok(<<label.s>> \o rest)))

\* union.variants.map((v) => inferDiscriminatorValue(doc, v, disc) ??
\* schemaDisplayTitle(doc, v) ?? "variant")
discriminatorLabels(doc, variants, disc) ==
  [i \in 1..Len(variants) |->
     coalesce(inferDiscriminatorValue(doc, variants[i], disc),
              coalesce(schemaDisplayTitle(doc, variants[i]), JStr(<<"variant">>))).s]

\* Object.keys(union.discriminator.mapping) when mapping is truthy, else []
mappingKeysOf(discriminator) ==
  IF truthy(get(discriminator, "mapping")) THEN get(discriminator, "mapping").keys ELSE <<>>

\* the labels are strings, given as their token sequences
unionVariantLabels(doc, union, d) ==
  IF d = 0 THEN Thrown
  ELSE IF ~truthy(get(union.discriminator, "propertyName"))
       THEN titleLabelsFrom(doc, union.variants, 1, d - 1)
  ELSE IF Len(mappingKeysOf(union.discriminator)) > 0
       THEN Ok(mappingKeysOf(union.discriminator))
  ELSE Ok(discriminatorLabels(doc, union.variants,
                              get(union.discriminator, "propertyName").s))

(***************************************************************************)
(* Inputs: documents and root schemas.                                     *)
(***************************************************************************)
Ref(name) == [ref |-> <<"#", "/", "components", "/", "schemas", "/", name>>]
StringSchema == [type |-> "string"]
NullSchema == [type |-> "null"]
EnumSchema == [type |-> "string", enum |-> <<"open", "closed">>]
\* an object with one required property `p` that refers to `target`
ObjectOf(target) ==
  [type |-> "object",
   properties |-> <<[name |-> "p", schema |-> Ref(target)],
                    [name |-> "n", schema |-> [type |-> "integer"]]>>,
   required |-> <<"p">>]
InlineableObject ==
  [type |-> "object", inlineable |-> TRUE, description |-> "inline me",
   properties |-> <<[name |-> "q", schema |-> StringSchema],
                    [name |-> "r", schema |-> EnumSchema]>>,
   required |-> <<"r">>]
UnionOf(x, y) == [oneOf |-> <<Ref(x), Ref(y)>>]
NullableOf(x) == [anyOf |-> <<Ref(x), NullSchema>>]
ArrayOf(x) == [type |-> "array", items |-> Ref(x)]
ArrayOfUnion(x, y) == [type |-> "array", items |-> [anyOf |-> <<Ref(x), Ref(y)>>]]
UnionWithArrayOfUnion(x, y) == [anyOf |-> <<ArrayOfUnion(x, y), StringSchema>>]
AllOfWrapper(x) == [allOf |-> <<Ref(x), [description |-> "wrapped"]>>]

\* a composition of two objects, the first without a required list
SplitRequired ==
  [allOf |-> <<[type |-> "object",
                properties |-> <<[name |-> "p", schema |-> StringSchema]>>],
               [type |-> "object",
                properties |-> <<[name |-> "p", schema |-> StringSchema],
                                 [name |-> "n", schema |-> [type |-> "integer"]]>>,
                required |-> <<"p">>]>>]

BodiesA ==
  {ObjectOf(x) : x \in {"B", "C", "Missing"}}
  \cup {SplitRequired}
  \cup {NullableOf(x) : x \in {"B", "C"}}
  \cup {AllOfWrapper("C"), ArrayOf("B"), UnionOf("C", "B"), UnionOf("B", "Missing"),
        ArrayOfUnion("C", "B"), UnionWithArrayOfUnion("C", "B")}
BodiesB ==
  {ObjectOf("A"), ObjectOf("C"), EnumSchema, InlineableObject, NullableOf("A"), StringSchema}
BodiesC ==
  {StringSchema, EnumSchema, InlineableObject, Ref("B")}

Docs == {[schemas |-> [A |-> a, B |-> b, C |-> c]] : a \in BodiesA, b \in BodiesB, c \in BodiesC}

\* root schemas: request bodies of operations
RootSchemas ==
  {[type |-> "object",
    properties |-> <<[name |-> "b", schema |-> Ref("B")],
                     [name |-> "a", schema |-> Ref("A")]>>,
    required |-> <<"a">>],
   [type |-> "object",
    properties |-> <<[name |-> "c", schema |-> Ref("C")],
                     [name |-> "items", schema |-> ArrayOfUnion("C", "A")]>>],
   Ref("B")}
\* the request schema { type: object, required: [status], properties:
\* { status: { enum: [open, closed] }, tags: { type: array, items: { type: string } } } }
StatusTagsRequest ==
  [type |-> "object",
   properties |-> <<[name |-> "status", schema |-> [enum |-> <<"open", "closed">>]],
                    [name |-> "tags", schema |-> [type |-> "array", items |-> StringSchema]]>>,
   required |-> <<"status">>]
\* the request schemas handed to buildReferenceIndex
RequestSchemas == RootSchemas \cup {StatusTagsRequest}
RootLists == UNION {[1..k -> RootSchemas] : k \in 1..MaxRoots}

\* schemas handed to the classifier functions
DupEnumSchema == [type |-> "string", enum |-> <<"open", "open", "closed">>]
DescribedObject ==
  [type |-> "object", description |-> "an object",
   properties |-> <<[name |-> "p", schema |-> StringSchema]>>, required |-> <<"p">>]
BaseSchemas ==
  {StringSchema, EnumSchema, DupEnumSchema, NullSchema, DescribedObject,
   [type |-> "array", items |-> EnumSchema],
   [anyOf |-> <<StringSchema, Ref("C")>>],
   Ref("A"), Ref("B"), Ref("C"), Ref("Missing")}
\* the unions of exactly a schema and the null type
NullableForms(t) ==
  {[anyOf |-> <<t, NullSchema>>], [anyOf |-> <<NullSchema, t>>],
   [oneOf |-> <<t, NullSchema>>], [oneOf |-> <<NullSchema, t>>]}
\* compositions: with a reference among the branches, and of schemas written
\* in place; a union with a branch that is a union of the null type alone;
\* an enum without a type; an array of objects
ComposedSchemas ==
  {AllOfWrapper("C"),
   [allOf |-> <<DescribedObject, [description |-> "wrapped"]>>],
   [allOf |-> <<StringSchema>>, oneOf |-> <<EnumSchema, NullSchema>>],
   [anyOf |-> <<[allOf |-> <<DescribedObject>>], NullSchema>>],
   [anyOf |-> <<[oneOf |-> <<NullSchema>>], StringSchema>>],
   [enum |-> <<"open", "closed">>],
   [type |-> "array", items |-> DescribedObject]}
Subjects == BaseSchemas \cup UNION {NullableForms(t) : t \in BaseSchemas} \cup ComposedSchemas
ClassifyDocs ==
  {[schemas |-> [A |-> a, B |-> b, C |-> c]] :
     a \in BodiesA, b \in {ObjectOf("A"), EnumSchema, NullableOf("A")},
     c \in {EnumSchema, InlineableObject}}

(***************************************************************************)
(* Pointer mode: inputs.                                                   *)
(***************************************************************************)
PtrAlphabet == {"/", "~", "0", "1", "a"}
PtrPrefixes == {<<"#", "/">>, <<"#">>, <<"/">>}
Pointers == {p \o b : p \in PtrPrefixes, b \in SeqsUpTo(PtrAlphabet, MaxPointerLen)}

PtrKeys == {<<>>, <<"a">>, <<"/">>, <<"~">>, <<"~", "1">>, <<"~", "0">>,
            <<"0">>, <<"1">>, <<"a", "/">>}

\* every key at two levels, each leaf named by the path that leads to it
PtrDocFull ==
  JObj([k1 \in PtrKeys |-> JObj([k2 \in PtrKeys |-> JLeaf(<<k1, k2>>)])])
\* leaves, a null and an empty object at the first level
PtrDocShallow ==
  JObj([k1 \in {<<"a">>, <<"/">>, <<"~">>, <<>>} |->
          IF k1 = <<"a">> THEN JNull
          ELSE IF k1 = <<>> THEN JObj([k2 \in {<<"a">>} |-> JNull])
          ELSE JLeaf(<<k1>>)])
PtrDocs == {PtrDocFull, PtrDocShallow, JObj(<<>>)}

\* reference strings: the pointers, the empty string, a relative path and a
\* string that holds "#/" but not at its start
RefStrings ==
  Pointers \cup {<<>>, <<"a", "/", "a">>, <<"a", "#", "/", "a">>}
\* the node { "$ref": ref }
RefNode(ref) == JObj([key \in {RefKey} |-> JStr(ref)])
\* nodes handed to derefSchema beside references: a node whose "$ref" is no
\* string, a node without "$ref", and null
PlainNodes ==
  {JObj([key \in {RefKey} |-> JLeaf(<<"1">>)]),
   JObj([key \in {<<"type">>} |-> JStr(<<"a">>)]),
   JNull}

(***************************************************************************)
(* Labels mode: inputs.                                                    *)
(***************************************************************************)
\* the string "#/components/schemas/<name>"
SchemaRef(name) == <<"#", "/", "components", "/", "schemas", "/", name>>
JRefTo(name) == RefNode(SchemaRef(name))
\* an object whose discriminator property `kind` is the constant `value`
JObjectOf(value) ==
  JRec([type |-> JStr(<<"object">>),
        properties |-> JRec([kind |-> JRec([const |-> JStr(<<value>>)])])])
JTitled == JRec([type |-> JStr(<<"string">>), title |-> JStr(<<"T">>)])
JString == JRec([type |-> JStr(<<"string">>)])
JEnum == JRec([enum |-> JArr(<<JStr(<<"a">>)>>)])
JArrayOf(name) == JRec([type |-> JStr(<<"array">>), items |-> JRefTo(name)])
JNullable == JRec([anyOf |-> JArr(<<JString, JRec([type |-> JStr(<<"null">>)])>>)])

\* components.schemas.A: an object, a titled string, a reference to B and no
\* more, a reference outside components.schemas, an array of A
LabelBodiesA ==
  {JObjectOf("a"), JTitled, JRefTo("B"), RefNode(<<"#", "/", "x">>), JArrayOf("A")}
LabelBodiesB == {JObjectOf("b"), JEnum, JString}
LabelDocs ==
  {JRec([components |-> JRec([schemas |-> JRec([A |-> a, B |-> b])])]) :
     a \in LabelBodiesA, b \in LabelBodiesB}

\* the variants of a union: references to A, B and a schema that is not
\* there, a reference with a prefix before "#/", and schemas written in place
LabelVariants ==
  {JRefTo("A"), JRefTo("B"), JRefTo("Missing"), RefNode(<<"x">> \o SchemaRef("A")),
   JString, JTitled, JArrayOf("A"), JNullable}
Discriminators ==
  {JUndefined,
   JRec([propertyName |-> JStr(<<"kind">>)]),
   JRec([propertyName |-> JStr(<<"kind">>),
         mapping |-> JOrdered(<<[key |-> <<"b">>, value |-> JStr(SchemaRef("B"))],
                                [key |-> <<"a">>, value |-> JStr(SchemaRef("A"))]>>)])}
\* a schema with a oneOf or anyOf of two variants, with or without a
\* discriminator
UnionSchemas ==
  {JObj([key \in {<<kind>>} \cup (IF disc = JUndefined THEN {} ELSE {<<"discriminator">>}) |->
           IF key = <<kind>> THEN JArr(<<v1, v2>>) ELSE disc]) :
     kind \in {"oneOf", "anyOf"}, v1 \in LabelVariants, v2 \in LabelVariants,
     disc \in Discriminators}

(***************************************************************************)
(* load.ts: loadOpenApiDocument and the module variable cachedDoc.         *)
(***************************************************************************)
\* calls of loadOpenApiDocument made in one process
MaxCalls == 4
Callers == 1..MaxCalls
NotCalled == [at |-> "idle", resolved |-> 0]

\* a run that never calls loadOpenApiDocument
NoLoad ==
  /\ cachedDoc = 0
  /\ calls = <<>>
  /\ reads = 0
  /\ parses = 0

(***************************************************************************)
(* sse-parser.ts: parseSSEStream.  A string is the sequence of its tokens: *)
(* "event:", "data:", " ", "\n", an event name, the text of a data         *)
(* payload.                                                                *)
(***************************************************************************)
\* blocks of one stream
MaxBlocks == 2
NL == "\n"
\* data payloads: a valid response.created event, a valid response.completed
\* event that carries a response, JSON that is no streaming event, text that
\* is no JSON, and the sentinel
Payloads == {"created", "completed", "invalid", "notjson", "[DONE]"}
\* JSON.parse(currentData) throws
NotJson(data) == data # <<"created">> /\ data # <<"completed">> /\ data # <<"invalid">>
\* parsed.type
parsedType(data) ==
  IF data = <<"created">> THEN <<"response.created">>
  ELSE IF data = <<"completed">> THEN <<"response.completed">>
  ELSE <<"bogus">>
\* streamingEventSchema.safeParse(parsed).success
validationSuccess(data) == data \in {<<"created">>, <<"completed">>}

\* s.trim()
RECURSIVE trim(_)
trim(s) ==
  IF s # <<>> /\ Head(s) = " " THEN trim(Tail(s))
  ELSE IF s # <<>> /\ s[Len(s)] = " " THEN trim(SubSeq(s, 1, Len(s) - 1))
  ELSE s

\* the body of `else` at sse-parser.ts:104-130: the event of one block pushed,
\* or the parse error
pushEvent(out, currentEvent, currentData) ==
  IF NotJson(currentData)
  THEN [out EXCEPT !.errors = Append(@, <<"Failed to parse event data: ">> \o currentData)]
  ELSE [events |-> Append(out.events,
                     [event |-> IF currentEvent # <<>> THEN currentEvent
                                ELSE parsedType(currentData),
                      data |-> currentData,
                      success |-> validationSuccess(currentData)]),
        errors |-> IF validationSuccess(currentData) THEN out.errors
                   ELSE Append(out.errors,
                          <<"Event validation failed for ">> \o parsedType(currentData)),
        finalResponse |-> IF parsedType(currentData) = <<"response.completed">>
                          THEN <<"response of ">> \o currentData
                          ELSE out.finalResponse]

\* for (const line of lines) { ... } from lines[i] on, currentEvent and
\* currentData the locals of this iteration of the read loop
RECURSIVE forLines(_, _, _, _, _)
forLines(lines, i, currentEvent, currentData, out) ==
  IF i > Len(lines) THEN out
  ELSE IF startsWith(lines[i], <<"event:">>)
       THEN forLines(lines, i + 1, trim(Tail(lines[i])), currentData, out)
  ELSE IF startsWith(lines[i], <<"data:">>)
       THEN forLines(lines, i + 1, currentEvent, trim(Tail(lines[i])), out)
  ELSE IF lines[i] = <<>> /\ currentData # <<>>
       THEN forLines(lines, i + 1, <<>>, <<>>,
                     IF currentData = <<"[DONE]">> THEN out
                     ELSE pushEvent(out, currentEvent, currentData))
  ELSE forLines(lines, i + 1, currentEvent, currentData, out)

\* one iteration of the read loop after `if (done) break`: the chunk joined
\* to the buffer, the complete lines processed, the rest kept
afterChunk(buf, chunk, out) ==
  [buffer |-> split(buf \o chunk, NL)[Len(split(buf \o chunk, NL))],
   out |-> forLines(SubSeq(split(buf \o chunk, NL), 1, Len(split(buf \o chunk, NL)) - 1),
                    1, <<>>, <<>>, out)]

NoOutput == [events |-> <<>>, errors |-> <<>>, finalResponse |-> <<>>]
\* a run that never calls parseSSEStream
NoStream ==
  /\ responseBody = <<>>
  /\ consumed = 0
  /\ buffer = <<>>
  /\ events = <<>>
  /\ errors = <<>>
  /\ finalResponse = <<>>

\* a block: an optional event line, a data line, a blank line
Blocks ==
  {<<"data:", " ", p, NL, NL>> : p \in Payloads}
  \cup {<<"event:", " ", "named", NL, "data:", " ", "created", NL, NL>>}
RECURSIVE Concat(_)
Concat(blocks) == IF blocks = <<>> THEN <<>> ELSE Head(blocks) \o Concat(Tail(blocks))
Bodies == {Concat(bs) : bs \in UNION {[1..k -> Blocks] : k \in 1..MaxBlocks}}

(***************************************************************************)
(* The state machine: one entry point per run, called once.                *)
(***************************************************************************)
NoDoc == [schemas |-> <<>>]
Pending == [pending |-> TRUE]

InitPointer ==
  /\ mode = "pointer"
  /\ pc = "start"
  /\ pointer \in Pointers
  /\ ptrDoc \in PtrDocs
  /\ ptrResult = JUndefined
  /\ document = NoDoc /\ roots = <<>> /\ result = Pending /\ NoLoad /\ NoStream

InitSchemaMode(m) ==
  /\ mode = m
  /\ pc = "start"
  /\ document \in Docs
  /\ result = Pending /\ NoLoad /\ NoStream
  /\ pointer = <<>> /\ ptrDoc = JUndefined /\ ptrResult = JUndefined

InitSections == InitSchemaMode("sections") /\ roots \in RootLists
InitIndex == InitSchemaMode("index") /\ \E r \in RequestSchemas : roots = <<r>>

InitClassify ==
  /\ mode = "classify"
  /\ pc = "start"
  /\ document \in ClassifyDocs
  /\ \E s \in Subjects : roots = <<s>>
  /\ result = Pending /\ NoLoad /\ NoStream
  /\ pointer = <<>> /\ ptrDoc = JUndefined /\ ptrResult = JUndefined

\* deref mode: the reference string is `pointer`, and roots holds the node
\* handed to derefSchema, the reference to `pointer` or a plain node
InitDeref ==
  /\ mode = "deref"
  /\ pc = "start"
  /\ pointer \in RefStrings
  /\ ptrDoc \in PtrDocs
  /\ \E node \in {RefNode(pointer)} \cup PlainNodes : roots = <<node>>
  /\ ptrResult = JUndefined
  /\ document = NoDoc /\ result = Pending /\ NoLoad /\ NoStream

InitCollect == InitSchemaMode("collect") /\ \E r \in RootSchemas : roots = <<r>>

\* every ordering of a list
Orderings(list) ==
  {[i \in 1..Len(list) |-> list[p[i]]] :
     p \in {q \in [1..Len(list) -> 1..Len(list)] :
              \A i, j \in 1..Len(list) : q[i] = q[j] => i = j}}

\* the name -> schema maps a root schema gives rise to: the entries the
\* collector finds, in each iteration order a Map of them can have
RefMaps(doc, root) ==
  IF IsThrown(collectRefsFromSchemas(doc, <<root>>, MaxDepth)) THEN {}
  ELSE Orderings(collectRefsFromSchemas(doc, <<root>>, MaxDepth).v)

\* refs mode: roots holds the entries of the map handed to
\* buildSectionsFromRefs
InitFromRefs ==
  /\ InitSchemaMode("refs")
  /\ \E r \in RootSchemas : roots \in RefMaps(document, r)

\* The JSON value of a schema node of the classifier: the same node, as the
\* pointer resolver sees it.
RECURSIVE ToJson(_)
ToJson(schema) ==
  JObj([key \in {IF f = "ref" THEN RefKey ELSE <<f>> : f \in DOMAIN schema} |->
          IF key = RefKey THEN JStr(schema.ref)
          ELSE IF key[1] \in {"type", "description", "unionTitle"} THEN JStr(<<schema[key[1]]>>)
          ELSE IF key[1] \in {"enum", "required"}
               THEN JArr([i \in 1..Len(schema[key[1]]) |-> JStr(<<schema[key[1]][i]>>)])
          ELSE IF key[1] = "items" THEN ToJson(schema.items)
          ELSE IF key[1] \in {"anyOf", "oneOf", "allOf"}
               THEN JArr([i \in 1..Len(schema[key[1]]) |-> ToJson(schema[key[1]][i])])
          ELSE IF key[1] = "properties"
               THEN JObj([name \in {<<schema.properties[i].name>> :
                                      i \in 1..Len(schema.properties)} |->
                            ToJson((CHOOSE e \in {schema.properties[i] :
                                                    i \in 1..Len(schema.properties)} :
                                      e.name = name[1]).schema)])
          ELSE JLeaf(schema[key[1]])])
\* the document as JSON: components.schemas holds the named schemas, and
\* components.parameters a parameter that has the name of a schema
ToJsonDocument(doc) ==
  JRec([components |->
          JRec([schemas |-> JObj([name \in {<<n>> : n \in DOMAIN doc.schemas} |->
                                    ToJson(doc.schemas[name[1]])]),
                parameters |-> JRec([A |-> JRec([name |-> JStr(<<"limit">>)])])])])

\* the reference strings handed to both resolvers: to a named schema, to a
\* name the document does not have, into another component area, to the
\* schemas object, below a named schema, with a trailing "/", with a file
\* before the "#", and with no "#/" at all
ResolveRefs ==
  {SchemaRef("A"), SchemaRef("B"), SchemaRef("Missing"),
   <<"#", "/", "components", "/", "parameters", "/", "A">>,
   <<"#", "/", "components", "/", "schemas">>,
   SchemaRef("A") \o <<"/", "properties", "/", "p">>,
   SchemaRef("A") \o <<"/">>,
   <<"other.json">> \o SchemaRef("A"),
   <<"A">>}

\* resolve mode: the same document for the classifier (document) and for
\* the pointer resolver (ptrDoc), and one reference string
InitResolve ==
  /\ mode = "resolve"
  /\ pc = "start"
  /\ document \in ClassifyDocs
  /\ ptrDoc = ToJsonDocument(document)
  /\ pointer \in ResolveRefs
  /\ roots = <<[ref |-> pointer]>>
  /\ result = Pending /\ NoLoad /\ NoStream
  /\ ptrResult = JUndefined

\* labels mode: ptrDoc is the document and roots holds the union schema
InitLabels ==
  /\ mode = "labels"
  /\ pc = "start"
  /\ ptrDoc \in LabelDocs
  /\ \E schema \in UnionSchemas : roots = <<schema>>
  /\ pointer = <<>> /\ ptrResult = JUndefined
  /\ document = NoDoc /\ result = Pending /\ NoLoad /\ NoStream

\* load mode: no call made yet, the cache empty
InitLoad ==
  /\ mode = "load"
  /\ pc = "start"
  /\ cachedDoc = 0
  /\ calls = [c \in Callers |-> NotCalled]
  /\ reads = 0
  /\ parses = 0
  /\ document = NoDoc /\ roots = <<>> /\ result = Pending /\ NoStream
  /\ pointer = <<>> /\ ptrDoc = JUndefined /\ ptrResult = JUndefined

\* stream mode: parseSSEStream has its reader and has read nothing
InitStream ==
  /\ mode = "stream"
  /\ pc = "start"
  /\ responseBody \in Bodies
  /\ consumed = 0
  /\ buffer = <<>>
  /\ events = <<>>
  /\ errors = <<>>
  /\ finalResponse = <<>>
  /\ document = NoDoc /\ roots = <<>> /\ result = Pending /\ NoLoad
  /\ pointer = <<>> /\ ptrDoc = JUndefined /\ ptrResult = JUndefined

Init ==
  \/ InitPointer \/ InitDeref \/ InitClassify \/ InitCollect \/ InitSections
  \/ InitIndex \/ InitFromRefs \/ InitLabels \/ InitResolve
  \/ InitLoad \/ InitStream

\* one call of getByJsonPointer(doc, pointer)
GetByJsonPointer ==
  /\ mode = "pointer"
  /\ pc = "start"
  /\ ptrResult' = getByJsonPointer(ptrDoc, pointer)
  /\ pc' = "done"
  /\ UNCHANGED <<mode, document, roots, result, pointer, ptrDoc, loadVars, sseVars>>

\* one call each of getByJsonPointer and resolveRef on the same reference
\* string, and of derefSchema on the node
DerefSchema ==
  /\ mode = "deref"
  /\ pc = "start"
  /\ result' = [getByJsonPointer |-> getByJsonPointer(ptrDoc, pointer),
                resolveRef |-> resolveRefByPointer(ptrDoc, pointer),
                derefSchema |-> derefSchema(ptrDoc, roots[1])]
  /\ pc' = "done"
  /\ UNCHANGED <<mode, document, roots, pointer, ptrDoc, ptrResult, loadVars, sseVars>>

\* what each classifier function returns for one schema
classify(doc, schema) ==
  [typeLabel |-> getTypeLabel(doc, schema, MaxDepth),
   description |-> getDescription(doc, schema, MaxDepth),
   enumValues |-> getEnumValues(doc, schema, MaxDepth),
   enumDescriptions |-> getEnumDescriptions(doc, schema, MaxDepth),
   properties |-> getSchemaProperties(doc, schema, MaxDepth),
   required |-> getSchemaRequired(doc, schema, MaxDepth),
   inlineable |-> getInlineable(doc, schema, MaxDepth),
   complex |-> isSchemaComplex(doc, schema, MaxDepth),
   array |-> isArraySchema(doc, schema, MaxDepth),
   unionVariants |-> getUnionVariants(doc, schema, MaxDepth),
   unionTitle |-> getUnionTitle(doc, schema, MaxDepth),
   kind |-> getSchemaKind(doc, schema, MaxDepth)]

\* one call of each classifier function on the same schema
Classify ==
  /\ mode = "classify"
  /\ pc = "start"
  /\ result' = classify(document, roots[1])
  /\ pc' = "done"
  /\ UNCHANGED <<mode, document, roots, pointer, ptrDoc, ptrResult, loadVars, sseVars>>

\* one call of collectRefSchemas(doc, schema), the accumulator defaulted
CollectRefSchemas ==
  /\ mode = "collect"
  /\ pc = "start"
  /\ result' = collectRefSchemas(document, roots[1], <<>>, MaxDepth)
  /\ pc' = "done"
  /\ UNCHANGED <<mode, document, roots, pointer, ptrDoc, ptrResult, loadVars, sseVars>>

\* one call of buildReferenceSections(doc, schemas)
BuildReferenceSections ==
  /\ mode = "sections"
  /\ pc = "start"
  /\ result' = buildReferenceSections(document, roots, MaxDepth)
  /\ document' = documentAfter(document, enumArraysWritten(document, result'))
  /\ pc' = "done"
  /\ UNCHANGED <<mode, roots, pointer, ptrDoc, ptrResult, loadVars, sseVars>>

\* one call of buildReferenceIndex(doc, requestSchema)
BuildReferenceIndex ==
  /\ mode = "index"
  /\ pc = "start"
  /\ result' = buildReferenceIndex(document, roots[1], MaxDepth)
  /\ document' = documentAfter(document,
                    enumArraysWritten(document,
                      IF IsThrown(result') THEN result' ELSE Ok(result'.v.sections)))
  /\ pc' = "done"
  /\ UNCHANGED <<mode, roots, pointer, ptrDoc, ptrResult, loadVars, sseVars>>

\* one call of buildSectionsFromRefs(doc, refs)
BuildSectionsFromRefs ==
  /\ mode = "refs"
  /\ pc = "start"
  /\ result' = buildSectionsFromRefs(document, roots, MaxDepth)
  /\ document' = documentAfter(document, enumArraysWritten(document, result'))
  /\ pc' = "done"
  /\ UNCHANGED <<mode, roots, pointer, ptrDoc, ptrResult, loadVars, sseVars>>

\* one call of unionVariantLabels(doc, union), the union that of
\* getUnionInfo(schema)
UnionVariantLabels ==
  /\ mode = "labels"
  /\ pc = "start"
  /\ getUnionInfo(roots[1]) # JNull
  /\ result' = unionVariantLabels(ptrDoc, getUnionInfo(roots[1]), MaxDepth)
  /\ pc' = "done"
  /\ UNCHANGED <<mode, document, roots, pointer, ptrDoc, ptrResult, loadVars, sseVars>>

\* the node the classifier recurses on for the reference node, the node
\* derefSchema of resolve.ts gives for it, and what the pointer resolver
\* returns for the reference string, with the name refName gives it
ResolveBoth ==
  /\ mode = "resolve"
  /\ pc = "start"
  /\ result' = [classifier |-> resolveRef(document, roots[1]),
                derefSchema |-> derefSchema(ptrDoc, ToJson(roots[1])),
                refName |-> refName(pointer)]
  /\ ptrResult' = getByJsonPointer(ptrDoc, pointer)
  /\ pc' = "done"
  /\ UNCHANGED <<mode, document, roots, pointer, ptrDoc, loadVars, sseVars>>

\* loadOpenApiDocument() up to its first await: the cached document
\* returned, or fs.readFile called
LoadOpenApiDocument(c) ==
  /\ mode = "load"
  /\ calls[c].at = "idle"
  /\ IF cachedDoc # 0
     THEN /\ calls' = [calls EXCEPT ![c] = [at |-> "done", resolved |-> cachedDoc]]
          /\ UNCHANGED reads
     ELSE /\ calls' = [calls EXCEPT ![c] = [at |-> "reading", resolved |-> 0]]
          /\ reads' = reads + 1
  /\ UNCHANGED <<mode, pc, document, roots, result, pointer, ptrDoc, ptrResult,
                 cachedDoc, parses, sseVars>>

\* the rest of a call once its read has completed: the text parsed, the
\* object stored in cachedDoc and returned
ReadFileCompletes(c) ==
  /\ mode = "load"
  /\ calls[c].at = "reading"
  /\ parses' = parses + 1
  /\ cachedDoc' = parses + 1
  /\ calls' = [calls EXCEPT ![c] = [at |-> "done", resolved |-> parses + 1]]
  /\ UNCHANGED <<mode, pc, document, roots, result, pointer, ptrDoc, ptrResult,
                 reads, sseVars>>

\* one iteration of the read loop: reader.read() hands out the next chunk,
\* of any length
ReadChunk ==
  /\ mode = "stream"
  /\ pc = "start"
  /\ \E n \in 1..(Len(responseBody) - consumed) :
       /\ consumed' = consumed + n
       /\ buffer' = afterChunk(buffer, SubSeq(responseBody, consumed + 1, consumed + n),
                               [events |-> events, errors |-> errors,
                                finalResponse |-> finalResponse]).buffer
       /\ events' = afterChunk(buffer, SubSeq(responseBody, consumed + 1, consumed + n),
                               [events |-> events, errors |-> errors,
                                finalResponse |-> finalResponse]).out.events
       /\ errors' = afterChunk(buffer, SubSeq(responseBody, consumed + 1, consumed + n),
                               [events |-> events, errors |-> errors,
                                finalResponse |-> finalResponse]).out.errors
       /\ finalResponse' = afterChunk(buffer, SubSeq(responseBody, consumed + 1, consumed + n),
                               [events |-> events, errors |-> errors,
                                finalResponse |-> finalResponse]).out.finalResponse
  /\ UNCHANGED <<mode, pc, document, roots, result, pointer, ptrDoc, ptrResult,
                 responseBody, loadVars>>

\* reader.read() reports done: the loop ends and the result is returned
ReadDone ==
  /\ mode = "stream"
  /\ pc = "start"
  /\ consumed = Len(responseBody)
  /\ result' = [events |-> events, errors |-> errors, finalResponse |-> finalResponse]
  /\ pc' = "done"
  /\ UNCHANGED <<mode, document, roots, pointer, ptrDoc, ptrResult, loadVars, sseVars>>

NextLoad == \E c \in Callers : LoadOpenApiDocument(c) \/ ReadFileCompletes(c)
NextStream == ReadChunk \/ ReadDone
NextPointer == GetByJsonPointer
NextDeref == DerefSchema
NextClassify == Classify
NextCollect == CollectRefSchemas
NextSections == BuildReferenceSections
NextIndex == BuildReferenceIndex
NextFromRefs == BuildSectionsFromRefs
NextLabels == UnionVariantLabels
NextResolve == ResolveBoth

\* the pointer resolver alone
SpecPointer == InitPointer /\ [][NextPointer]_vars
\* resolveRef and derefSchema of resolve.ts
SpecDeref == InitDeref /\ [][NextDeref]_vars
\* the classifier functions alone
SpecClassify == InitClassify /\ [][NextClassify]_vars
\* the reference collector alone
SpecCollect == InitCollect /\ [][NextCollect]_vars
\* buildReferenceSections alone
SpecSections == InitSections /\ [][NextSections]_vars
\* buildReferenceIndex alone
SpecIndex == InitIndex /\ [][NextIndex]_vars
\* buildSectionsFromRefs alone, over the iteration orders of its map
SpecFromRefs == InitFromRefs /\ [][NextFromRefs]_vars
\* unionVariantLabels of schemaFormat.ts
SpecLabels == InitLabels /\ [][NextLabels]_vars
\* the classifier's resolveRef beside the pointer resolver
SpecResolve == InitResolve /\ [][NextResolve]_vars

Next ==
  \/ GetByJsonPointer
  \/ DerefSchema
  \/ Classify
  \/ CollectRefSchemas
  \/ BuildReferenceSections
  \/ BuildReferenceIndex
  \/ BuildSectionsFromRefs
  \/ UnionVariantLabels
  \/ ResolveBoth
  \/ \E c \in Callers : LoadOpenApiDocument(c)
  \/ \E c \in Callers : ReadFileCompletes(c)
  \/ ReadChunk
  \/ ReadDone

\* loadOpenApiDocument alone, its calls interleaved
SpecLoad == InitLoad /\ [][NextLoad]_vars
\* parseSSEStream alone
SpecStream == InitStream /\ [][NextStream]_vars

Spec == Init /\ [][Next]_vars

(***************************************************************************)
(* Claims.                                                                 *)
(***************************************************************************)
Returned == pc = "done" /\ ~IsThrown(result)

\* the names of the references that occur anywhere inside a schema node
RECURSIVE RefNamesIn(_)
RefNamesIn(schema) ==
  IF HasRef(schema) THEN {getRefName(schema)}
  ELSE UNION {RefNamesIn(childrenOf(schema)[i]) : i \in 1..Len(childrenOf(schema))}

NamesOf(entries) == {entries[i].name : i \in 1..Len(entries)}
CountOf(entries, name) == Cardinality({i \in 1..Len(entries) : entries[i].name = name})

\* A and B refer to each other
MutualAB ==
  /\ "B" \in RefNamesIn(document.schemas["A"])
  /\ "A" \in RefNamesIn(document.schemas["B"])

\* C1: on any document, reference cycles included, collectRefSchemas
\* terminates, and when A and B refer to each other its result holds each of
\* A and B exactly once.
C1_CycleSafety ==
  (mode = "collect" /\ pc = "done") =>
    /\ ~IsThrown(result)
    /\ \A n \in NamesOf(result.v) : CountOf(result.v, n) = 1
    /\ (MutualAB /\ RefNamesIn(roots[1]) \cap {"A", "B"} # {}) =>
         (CountOf(result.v, "A") = 1 /\ CountOf(result.v, "B") = 1)

\* A's property refers to B, B's property refers back to A, and the
\* collector has returned both
C1_Witness ==
  /\ mode = "collect" /\ pc = "done"
  /\ document.schemas["A"] = ObjectOf("B")
  /\ document.schemas["B"] = ObjectOf("A")
  /\ ~IsThrown(result)
  /\ {"A", "B"} \subseteq NamesOf(result.v)

\* the names collected from the roots that the document does not define
UnresolvedReachable ==
  LET refs == collectRefsFromSchemas(document, roots, MaxDepth)
  IN IF IsThrown(refs) THEN {} ELSE NamesOf(refs.v) \ DOMAIN document.schemas

\* C2: when a schema reachable from the roots is a reference whose target
\* does not exist, buildReferenceSections still returns normally.
C2_UnresolvedNeverAborts ==
  (mode = "sections" /\ pc = "done" /\ UnresolvedReachable # {}) => ~IsThrown(result)

\* every name in every partition of a section set, and in byName
SectionNames(sections) ==
  NamesOf(sections.enums) \cup NamesOf(sections.objects)
    \cup NamesOf(sections.unions) \cup NamesOf(sections.byName)

\* the named schemas the classifier marks inlineable
InlineableNames ==
  {n \in DOMAIN document.schemas :
     getInlineable(document, document.schemas[n], MaxDepth) = Ok(TRUE)}

\* C3: a named schema that the classifier marks inlineable is no key of
\* byName and is in none of enums, objects, unions, however many places
\* refer to it.
C3_InlineableExclusion ==
  (mode = "sections" /\ Returned) =>
    SectionNames(result.v) \cap InlineableNames = {}

\* three places refer to the inlineable schema B (two roots and A's
\* property), the call has returned, and A has its section
C3_Witness ==
  /\ mode = "sections" /\ Returned
  /\ document.schemas["B"] = InlineableObject
  /\ document.schemas["A"] = ObjectOf("B")
  /\ Len(roots) = 2 /\ roots[2] = Ref("B")
  /\ "B" \in RefNamesIn(roots[1])
  /\ "A" \in NamesOf(result.v.byName)


\* the rows of a list, by name
RowNames(rows) == [i \in 1..Len(rows) |-> rows[i].name]
\* the property map the classifier finds for a schema, empty when none
PropertiesOf(schema) ==
  LET props == getSchemaProperties(document, schema, MaxDepth)
  IN IF IsThrown(props) \/ IsNoProps(props) THEN <<>> ELSE props.v
\* the property is a reference to a named schema marked inlineable
RefersToInlineable(prop) == HasRef(prop) /\ getRefName(prop) \in InlineableNames
\* the row carries, as nested inline rows, the fields of its property
CarriesFields(row, prop) ==
  /\ Has(row, "inlineRows")
  /\ RowNames(row.inlineRows) = RowNames(PropertiesOf(prop))
\* the properties of the request schema, the source of the top-level rows
RequestProperties ==
  IF Has(roots[1], "properties") THEN roots[1].properties ELSE <<>>

IsArrayOfUnion(schema) ==
  /\ TypeOf(schema) = "array"
  /\ Has(schema, "items")
  /\ Has(schema.items, "anyOf")
  /\ Len(schema.items.anyOf) = 2
\* X (or Y) is a single variant: not the null type and, dereferenced, no union
IsLeafVariant(schema) ==
  /\ TypeOf(schema) # "null"
  /\ getUnionVariants(document, schema, MaxDepth) = Ok(<<>>)
\* the label after X: the name X refers to
LabelAfter(schema) ==
  IF HasRef(schema) THEN getRefName(schema)
  ELSE getVariantLabel(document, schema, MaxDepth).v
\* the grouped entry the claim describes
IsGroupedEntry(entry, schema) ==
  /\ entry.array = FALSE
  /\ entry.typeClass = "object"
  /\ entry.label = "array of"
  /\ Has(entry, "groupVariants")
  /\ Len(entry.groupVariants) = 2
  /\ entry.groupVariants[1].label = LabelAfter(schema.items.anyOf[1])
  /\ entry.groupVariants[2].label = LabelAfter(schema.items.anyOf[2])

\* C5 as stated: a property whose schema is an array whose items is
\* anyOf [X, Y] has a variant list of exactly one entry, the grouped one.
C5_ArrayOfUnionProperty ==
  (mode = "index" /\ Returned) =>
    \A i \in 1..Len(RequestProperties) :
      LET prop == RequestProperties[i].schema
      IN (/\ IsArrayOfUnion(prop)
          /\ IsLeafVariant(prop.items.anyOf[1])
          /\ IsLeafVariant(prop.items.anyOf[2])) =>
           /\ Len(result.v.parameterRows[i].unionVariants) = 1
           /\ IsGroupedEntry(result.v.parameterRows[i].unionVariants[1], prop)

\* C5, amended: a property that is a union has one entry per variant, and
\* the entry of a variant that is an array whose items is anyOf [X, Y] (X, Y
\* single variants) is the grouped one: array false, typeClass "object",
\* label "array of", a nested group of two variants labelled after X and Y.
\* A property whose own schema is such an array has an empty variant list.
C5_ArrayOfUnionVariant ==
  (mode = "index" /\ Returned) =>
    \A i \in 1..Len(RequestProperties) :
      LET prop == RequestProperties[i].schema
          variants == getUnionVariants(document, prop, MaxDepth).v
          entries == result.v.parameterRows[i].unionVariants
      IN /\ Len(entries) = Len(variants)
         /\ \A j \in 1..Len(variants) :
              LET variant == resolveRef(document, variants[j])
              IN (/\ IsArrayOfUnion(variant)
                  /\ IsLeafVariant(variant.items.anyOf[1])
                  /\ IsLeafVariant(variant.items.anyOf[2])) =>
                   IsGroupedEntry(entries[j], variant)
         /\ IsArrayOfUnion(prop) => entries = <<>>

\* the property a refers to A = anyOf [array of anyOf [C, B], string]; its
\* first variant entry is the group "array of" (C | B)
C5_Witness ==
  /\ mode = "index" /\ Returned
  /\ document.schemas["A"] = UnionWithArrayOfUnion("C", "B")
  /\ Len(result.v.parameterRows) = 2
  /\ result.v.parameterRows[2].name = "a"
  /\ Len(result.v.parameterRows[2].unionVariants) = 2
  /\ result.v.parameterRows[2].unionVariants[1].label = "array of"
  /\ Len(result.v.parameterRows[2].unionVariants[1].groupVariants) = 2
  /\ result.v.parameterRows[2].unionVariants[1].groupVariants[1].label = "C"
  /\ result.v.parameterRows[2].unionVariants[1].groupVariants[2].label = "B"

\* the three ordered lists of a result of buildReferenceSections
ListsOf(res) ==
  IF IsThrown(res) THEN res
  ELSE [enums |-> res.v.enums, objects |-> res.v.objects, unions |-> res.v.unions]

\* C8: for a fixed document, buildReferenceSections gives the same ordered
\* enums, objects and unions lists (members, order, rows and variants) for
\* every ordering of the same root schemas.
C8_OrderIndependence ==
  (mode = "sections" /\ pc = "done") =>
    \A ordering \in Orderings(roots) :
      ListsOf(buildReferenceSections(document, ordering, MaxDepth)) = ListsOf(result)

\* two roots that discover the named schemas in different orders, and a
\* result with sections in more than one partition
C8_Witness ==
  /\ mode = "sections" /\ Returned
  /\ Len(roots) = 2
  /\ collectRefsFromSchemas(document, roots, MaxDepth)
       # collectRefsFromSchemas(document, <<roots[2], roots[1]>>, MaxDepth)
  /\ Len(result.v.objects) >= 2
  /\ Len(result.v.unions) >= 1
  /\ Len(result.v.unions[1].variants) >= 2

\* all sections of a result, partition after partition
AllSections(sections) == sections.enums \o sections.objects \o sections.unions

\* C9: each section's id is "<kind>-<name>", its kind is that of its
\* partition, no two sections share an id or a name, and byName holds
\* exactly the sectioned names, each once, with the section's id and kind.
C9_SectionIdentity ==
  (mode = "sections" /\ Returned) =>
    LET all == AllSections(result.v)
        byName == result.v.byName
    IN /\ \A i \in 1..Len(all) : all[i].id = all[i].kind \o "-" \o all[i].name
       /\ \A i \in 1..Len(result.v.enums) : result.v.enums[i].kind = "enum"
       /\ \A i \in 1..Len(result.v.objects) : result.v.objects[i].kind = "object"
       /\ \A i \in 1..Len(result.v.unions) : result.v.unions[i].kind = "union"
       /\ \A i, j \in 1..Len(all) :
            i # j => all[i].id # all[j].id /\ all[i].name # all[j].name
       /\ \A i, j \in 1..Len(byName) : i # j => byName[i].name # byName[j].name
       /\ Len(byName) = Len(all)
       /\ \A i \in 1..Len(all) :
            \E k \in 1..Len(byName) :
              /\ byName[k].name = all[i].name
              /\ byName[k].id = all[i].id
              /\ byName[k].kind = all[i].kind

\* a result with a section in each of the three partitions, discovered
\* from two roots that both reach the same names
C9_Witness ==
  /\ mode = "sections" /\ Returned
  /\ Len(roots) = 2
  /\ RefNamesIn(roots[1]) \cap RefNamesIn(roots[2]) # {}
  /\ Len(result.v.enums) >= 1
  /\ Len(result.v.objects) >= 1
  /\ Len(result.v.unions) >= 1

\* the classified schema is a reference, with nothing beside `$ref`, to a
\* schema the document defines
IsResolvableRef(schema) ==
  /\ DOMAIN schema = {"ref"}
  /\ getRefName(schema) \in DOMAIN document.schemas
TargetOf(schema) == document.schemas[getRefName(schema)]

\* C6 as stated: a reference node whose target exists gets the same type
\* label, description and enum values as its resolved target.
C6_DerefIdempotence ==
  (mode = "classify" /\ pc = "done" /\ IsResolvableRef(roots[1])) =>
    /\ result.typeLabel = getTypeLabel(document, TargetOf(roots[1]), MaxDepth)
    /\ result.description = getDescription(document, TargetOf(roots[1]), MaxDepth)
    /\ result.enumValues = getEnumValues(document, TargetOf(roots[1]), MaxDepth)

\* C6, amended: a reference node whose target exists gets the description
\* and the enum values of its resolved target, and the reference's name as
\* its type label.
C6_DerefDescriptionEnum ==
  (mode = "classify" /\ pc = "done" /\ IsResolvableRef(roots[1])) =>
    /\ result.typeLabel = Ok(getRefName(roots[1]))
    /\ result.description = getDescription(document, TargetOf(roots[1]), MaxDepth)
    /\ result.enumValues = getEnumValues(document, TargetOf(roots[1]), MaxDepth)

\* the reference to C has been classified, C being the described inlineable
\* object: the description is C's, the label is "C" and not "object"
C6_Witness ==
  /\ mode = "classify" /\ pc = "done"
  /\ roots[1] = Ref("C")
  /\ document.schemas["C"] = InlineableObject
  /\ result.description = Ok("inline me")
  /\ result.typeLabel = Ok("C")
  /\ getTypeLabel(document, InlineableObject, MaxDepth) = Ok("object")

\* the classified schema is a union of exactly one schema and the null type
BranchesOf(schema) ==
  IF DOMAIN schema = {"anyOf"} THEN schema.anyOf
  ELSE IF DOMAIN schema = {"oneOf"} THEN schema.oneOf
  ELSE <<>>
IsNullableUnion(schema) ==
  /\ Len(BranchesOf(schema)) = 2
  /\ NullSchema \in {BranchesOf(schema)[1], BranchesOf(schema)[2]}
\* T: the branch that is not the null type (the null type itself for the
\* union of null and null)
BaseOf(schema) ==
  IF BranchesOf(schema)[1] = NullSchema THEN BranchesOf(schema)[2]
  ELSE BranchesOf(schema)[1]

\* a list without its repeated values, first occurrences kept
Dedupe(r) == IF IsThrown(r) THEN r ELSE Ok(pushNew(<<>>, r.v))

\* C7 as stated: a union of exactly T and null, in either order, yields the
\* type label, enum values, properties and required list of T alone.  (Read
\* here for T other than the null type, with no repeated enum value.)
C7_NullableUnwrapping ==
  (mode = "classify" /\ pc = "done" /\ IsNullableUnion(roots[1])
     /\ BaseOf(roots[1]) # NullSchema
     /\ Dedupe(getEnumValues(document, BaseOf(roots[1]), MaxDepth))
          = getEnumValues(document, BaseOf(roots[1]), MaxDepth)) =>
    /\ result.typeLabel = getTypeLabel(document, BaseOf(roots[1]), MaxDepth)
    /\ result.enumValues = getEnumValues(document, BaseOf(roots[1]), MaxDepth)
    /\ result.properties = getSchemaProperties(document, BaseOf(roots[1]), MaxDepth)
    /\ result.required = getSchemaRequired(document, BaseOf(roots[1]), MaxDepth)

\* C7, amended: for T other than the null type, an anyOf of T and null in
\* either order, and a oneOf with T first, yield T's type label; a oneOf
\* with null first is labelled "null".  Every such union yields T's
\* properties and required list, and T's enum values without repetitions.
C7_NullableUnwrappingAnyOf ==
  (mode = "classify" /\ pc = "done" /\ IsNullableUnion(roots[1])
     /\ BaseOf(roots[1]) # NullSchema) =>
    /\ result.typeLabel =
         IF Has(roots[1], "oneOf") /\ roots[1].oneOf[1] = NullSchema THEN Ok("null")
         ELSE getTypeLabel(document, BaseOf(roots[1]), MaxDepth)
    /\ result.enumValues = Dedupe(getEnumValues(document, BaseOf(roots[1]), MaxDepth))
    /\ result.properties = getSchemaProperties(document, BaseOf(roots[1]), MaxDepth)
    /\ result.required = getSchemaRequired(document, BaseOf(roots[1]), MaxDepth)

\* anyOf [null, described object] has been classified as the object is
C7_Witness ==
  /\ mode = "classify" /\ pc = "done"
  /\ roots[1] = [anyOf |-> <<NullSchema, DescribedObject>>]
  /\ result.typeLabel = Ok("object")
  /\ result.properties = Ok(DescribedObject.properties)
  /\ result.required = Ok(<<"p">>)

\* Reference reading of a pointer, written from RFC 6901 rather than from
\* the code: one left-to-right scan that turns the escape ~1 into / and ~0
\* into ~, and the positions of the separators.
RECURSIVE UnescapeScan(_)
UnescapeScan(s) ==
  IF s = <<>> THEN <<>>
  ELSE IF Len(s) >= 2 /\ s[1] = "~" /\ s[2] \in {"0", "1"}
       THEN <<IF s[2] = "1" THEN "/" ELSE "~">> \o UnescapeScan(SubSeq(s, 3, Len(s)))
  ELSE <<s[1]>> \o UnescapeScan(Tail(s))

SeparatorsOf(body) == {i \in 1..Len(body) : body[i] = "/"}
\* the n-th raw segment of body (1-based): between the (n-1)-th and n-th "/"
NthSeparator(body, n) ==
  IF n = 0 THEN 0
  ELSE IF n > Cardinality(SeparatorsOf(body)) THEN Len(body) + 1
  ELSE CHOOSE i \in SeparatorsOf(body) :
         Cardinality({j \in SeparatorsOf(body) : j <= i}) = n
RawSegment(body, n) ==
  SubSeq(body, NthSeparator(body, n - 1) + 1, NthSeparator(body, n) - 1)
SegmentsOf(body) ==
  [n \in 1..(Cardinality(SeparatorsOf(body)) + 1) |-> UnescapeScan(RawSegment(body, n))]

\* field lookup, one segment after the other, from the document root; absent
\* as soon as the value a segment is to be looked up in is absent (or null)
RECURSIVE SequentialLookup(_, _)
SequentialLookup(value, segs) ==
  IF segs = <<>> THEN value
  ELSE IF value.k \in {"null", "undefined"} THEN JUndefined
  ELSE IF value.k = "obj" /\ Head(segs) \in DOMAIN value.f
       THEN SequentialLookup(value.f[Head(segs)], Tail(segs))
  ELSE SequentialLookup(JUndefined, Tail(segs))

\* C10: for every document and every pointer #/s1/.../sn, getByJsonPointer
\* returns the value found by looking up the unescaped segments one after
\* another from the root, and absent once an intermediate value is absent.
C10_PointerResolution ==
  (mode = "pointer" /\ pc = "done" /\ startsWith(pointer, <<"#", "/">>)) =>
    ptrResult = SequentialLookup(ptrDoc, SegmentsOf(SubSeq(pointer, 3, Len(pointer))))

\* the pointer #/~01/a has been resolved to the leaf under the keys "~1", "a"
C10_Witness ==
  /\ mode = "pointer" /\ pc = "done"
  /\ pointer = <<"#", "/", "~", "0", "1", "/">>
  /\ ptrDoc = PtrDocFull
  /\ ptrResult = JLeaf(<<<<"~", "1">>, <<>>>>)

\* C11: a reference string that does not start with "#/" is not found:
\* getByJsonPointer and resolveRef return undefined for it, and derefSchema
\* returns the reference node it was given.
C11_NonLocalRefNotFound ==
  (mode = "deref" /\ pc = "done" /\ ~startsWith(pointer, <<"#", "/">>)) =>
    /\ result.getByJsonPointer = JUndefined
    /\ result.resolveRef = JUndefined
    /\ roots[1] = RefNode(pointer) => result.derefSchema = roots[1]

\* the reference "/~1" (no "#"), whose remainder after two characters names
\* a key of the document, has been dereferenced to the node itself
C11_Witness ==
  /\ mode = "deref" /\ pc = "done"
  /\ pointer = <<"/", "~", "1">>
  /\ ptrDoc = PtrDocFull
  /\ roots[1] = RefNode(pointer)
  /\ result.derefSchema = RefNode(pointer)
  /\ result.resolveRef = JUndefined

SortedBy(list, key) ==
  \A i, j \in 1..Len(list) : i < j => localeLeq(list[i][key], list[j][key])

\* C13: in the result of buildSectionsFromRefs each of the enums, objects and
\* unions lists is in alphabetical order of section name, and the variants
\* of each union section are in alphabetical order of label, whatever the
\* iteration order of the name -> schema map handed in.
C13_SectionsSorted ==
  (mode = "refs" /\ Returned) =>
    /\ SortedBy(result.v.enums, "name")
    /\ SortedBy(result.v.objects, "name")
    /\ SortedBy(result.v.unions, "name")
    /\ \A i \in 1..Len(result.v.unions) : SortedBy(result.v.unions[i].variants, "label")

\* a map that iterates against the alphabet (C, then B, then A), from which
\* come two enum sections and a union section whose variants the document
\* lists as C, B
C13_Witness ==
  /\ mode = "refs" /\ Returned
  /\ [i \in 1..Len(roots) |-> roots[i].name] = <<"C", "B", "A">>
  /\ [i \in 1..Len(result.v.enums) |-> result.v.enums[i].name] = <<"B", "C">>
  /\ Len(result.v.unions) = 1
  /\ document.schemas.A = UnionOf("C", "B")
  /\ [i \in 1..2 |-> result.v.unions[1].variants[i].label] = <<"B", "C">>

\* C14: every enum section's values list is sorted and holds no value
\* twice: in the order of localeCompare each value comes strictly before the
\* next.
C14_EnumValuesSortedUnique ==
  (mode = "sections" /\ Returned) =>
    \A i \in 1..Len(result.v.enums) :
      \A j, k \in 1..Len(result.v.enums[i].values) :
        j < k => /\ localeLeq(result.v.enums[i].values[j], result.v.enums[i].values[k])
                 /\ result.v.enums[i].values[j] # result.v.enums[i].values[k]

\* a property that is enumerated: it has a non-empty `enum` of its own, or
\* it refers to a named schema that has one
OwnEnum(schema) ==
  IF Has(schema, "enum") /\ ~HasRef(schema) /\ ~Has(schema, "items") THEN schema.enum ELSE <<>>
EnumOfProperty(prop) ==
  IF HasRef(prop)
  THEN IF getRefName(prop) \in DOMAIN document.schemas
       THEN OwnEnum(document.schemas[getRefName(prop)]) ELSE <<>>
  ELSE OwnEnum(prop)
\* a property that is an array of strings
IsArrayOfStrings(prop) ==
  TypeOf(prop) = "array" /\ Has(prop, "items") /\ prop.items = StringSchema

\* C15: for a request schema that is an object with properties of its own,
\* buildReferenceIndex returns one parameter row per property, in property
\* order; a row is required iff its name is in the required list; it has
\* typeClass "enum" and the property's enum values when the property is
\* enumerated; its array flag is the array-ness of the property; and an
\* array of strings has the type label "string".
C15_TopLevelRows ==
  (mode = "index" /\ Returned /\ TypeOf(roots[1]) = "object" /\ Has(roots[1], "properties")) =>
    /\ Len(result.v.parameterRows) = Len(roots[1].properties)
    /\ \A i \in 1..Len(roots[1].properties) :
         LET prop == roots[1].properties[i].schema
             row == result.v.parameterRows[i]
         IN /\ row.name = roots[1].properties[i].name
            /\ row.required <=> (/\ Has(roots[1], "required")
                                 /\ \E k \in 1..Len(roots[1].required) :
                                      roots[1].required[k] = row.name)
            /\ EnumOfProperty(prop) # <<>> =>
                 row.typeClass = "enum" /\ row.enumValues = EnumOfProperty(prop)
            /\ row.array <=> (isArraySchema(document, prop, MaxDepth) = Ok(TRUE))
            /\ (TypeOf(prop) = "array" \/ Has(prop, "items")) => row.array
            /\ (TypeOf(prop) \in PRIMITIVE_TYPES /\ ~Has(prop, "items")) => ~row.array
            /\ IsArrayOfStrings(prop) => row.typeLabel = "string"

\* the status/tags scenario: two rows, `status` required, of typeClass
\* "enum" with the values open and closed and no array, `tags` not
\* required, an array with the type label "string"
C15_Witness ==
  /\ mode = "index" /\ Returned
  /\ roots = <<StatusTagsRequest>>
  /\ Len(result.v.parameterRows) = 2
  /\ result.v.parameterRows[1].name = "status"
  /\ result.v.parameterRows[1].required
  /\ result.v.parameterRows[1].typeClass = "enum"
  /\ result.v.parameterRows[1].enumValues = <<"open", "closed">>
  /\ ~result.v.parameterRows[1].array
  /\ result.v.parameterRows[2].name = "tags"
  /\ ~result.v.parameterRows[2].required
  /\ result.v.parameterRows[2].array
  /\ result.v.parameterRows[2].typeLabel = "string"

\* the variants that are references to the named schemas of the document
NamedSchemaRefs == {JRefTo(name) : name \in {"A", "B"}}
\* the name a reference to a named schema ends in
ReferencedName(v) == <<v.f[RefKey].s[Len(v.f[RefKey].s)]>>
\* a oneOf union with no discriminator whose variants all refer to named
\* schemas
IsPlainOneOfOfRefs(schema) ==
  /\ get(schema, "oneOf").k = "arr"
  /\ get(schema, "discriminator").k = "undefined"
  /\ \A i \in 1..Len(get(schema, "oneOf").a) : get(schema, "oneOf").a[i] \in NamedSchemaRefs

\* C16: for a oneOf union with no discriminator whose variants are
\* references to named schemas, unionVariantLabels returns one label per
\* variant, in document order, each the name of the schema the variant
\* refers to.
C16_LabelsAreReferencedNames ==
  (mode = "labels" /\ pc = "done" /\ IsPlainOneOfOfRefs(roots[1])) =>
    result = Ok([i \in 1..Len(get(roots[1], "oneOf").a) |->
                   ReferencedName(get(roots[1], "oneOf").a[i])])

\* the schemas one step inside a schema node: its property values, its
\* items and the branches of its anyOf, oneOf and allOf
SubSchemas(schema) ==
  (IF Has(schema, "properties")
   THEN {schema.properties[i].schema : i \in 1..Len(schema.properties)} ELSE {})
  \cup (IF Has(schema, "items") THEN {schema.items} ELSE {})
  \cup (IF Has(schema, "anyOf") THEN {schema.anyOf[i] : i \in 1..Len(schema.anyOf)} ELSE {})
  \cup (IF Has(schema, "oneOf") THEN {schema.oneOf[i] : i \in 1..Len(schema.oneOf)} ELSE {})
  \cup (IF Has(schema, "allOf") THEN {schema.allOf[i] : i \in 1..Len(schema.allOf)} ELSE {})
\* the names of the references met from a schema node without passing
\* through a reference
RECURSIVE DirectRefNames(_)
DirectRefNames(schema) ==
  IF HasRef(schema) THEN {getRefName(schema)}
  ELSE UNION {DirectRefNames(sub) : sub \in SubSchemas(schema)}
\* `names` and what k further rounds of following the definitions add
RECURSIVE ReachFrom(_, _)
ReachFrom(names, k) ==
  IF k = 0 THEN names
  ELSE ReachFrom(names \cup UNION {DirectRefNames(document.schemas[n]) :
                                     n \in names \cap DOMAIN document.schemas}, k - 1)
\* the names reachable from the root: no chain of distinct names is longer
\* than the names there are
ReachableNames ==
  ReachFrom(DirectRefNames(roots[1]), Cardinality(DOMAIN document.schemas) + 1)

\* C17: the keys of collectRefSchemas(doc, root) are exactly the names
\* reachable from root through property values, items, anyOf/oneOf/allOf
\* branches and the targets of references; each name is there once, and it
\* maps to what the reference resolves to: the definition the document has
\* under the name, or the reference node when it has none.
C17_CollectorCoverage ==
  (mode = "collect" /\ pc = "done") =>
    /\ ~IsThrown(result)
    /\ NamesOf(result.v) = ReachableNames
    /\ \A i \in 1..Len(result.v) :
         /\ CountOf(result.v, result.v[i].name) = 1
         /\ result.v[i].schema =
              IF result.v[i].name \in DOMAIN document.schemas
              THEN document.schemas[result.v[i].name]
              ELSE Ref(result.v[i].name)

\* C is reached by three paths (a property, the items of an array with an
\* anyOf, and a oneOf branch of A), B by one, and Missing has no definition
C17_Witness ==
  /\ mode = "collect" /\ pc = "done" /\ ~IsThrown(result)
  /\ Has(roots[1], "properties")
  /\ Len(roots[1].properties) = 2 /\ roots[1].properties[2].schema = ArrayOfUnion("C", "A")
  /\ document.schemas.A = UnionOf("B", "Missing")
  /\ document.schemas.B = ObjectOf("C")
  /\ [i \in 1..Len(result.v) |-> result.v[i].name] = <<"C", "A", "B", "Missing">>
  /\ result.v[4].schema = Ref("Missing")

\* the names of the references met from a schema node without passing
\* through a reference or into a property value
RECURSIVE NonPropertyRefNames(_)
NonPropertyRefNames(schema) ==
  IF HasRef(schema) THEN {getRefName(schema)}
  ELSE UNION {NonPropertyRefNames(sub) :
                sub \in SubSchemas([f \in DOMAIN schema \ {"properties"} |-> schema[f]])}
\* the names reached from `names` by k further steps along such edges
RECURSIVE NonPropertyReach(_, _)
NonPropertyReach(names, k) ==
  IF k = 0 THEN names
  ELSE NonPropertyReach(
         names \cup UNION {NonPropertyRefNames(document.schemas[n]) :
                             n \in names \cap DOMAIN document.schemas}, k - 1)
\* every reference of the document and of the roots resolves
EveryReferenceResolves ==
  /\ \A n \in DOMAIN document.schemas :
       DirectRefNames(document.schemas[n]) \subseteq DOMAIN document.schemas
  /\ \A i \in 1..Len(roots) : DirectRefNames(roots[i]) \subseteq DOMAIN document.schemas
\* every reference cycle passes through a `properties` edge: no named schema
\* reaches itself along edges that are not
EveryCycleThroughProperties ==
  \A n \in DOMAIN document.schemas :
    n \notin NonPropertyReach(NonPropertyRefNames(document.schemas[n]),
                              Cardinality(DOMAIN document.schemas))
\* a reference cycle there is: A and B refer to each other through
\* properties
PropertyCycleAB ==
  /\ "B" \in DirectRefNames(document.schemas.A) \ NonPropertyRefNames(document.schemas.A)
  /\ "A" \in DirectRefNames(document.schemas.B) \ NonPropertyRefNames(document.schemas.B)

\* C18: on a document in which every reference resolves and every reference
\* cycle passes through at least one `properties` edge, buildReferenceIndex
\* and buildReferenceSections terminate: the call returns and does not end
\* in the RangeError of an unbounded recursion.
C18_TerminationOnPropertyCycles ==
  (/\ mode \in {"sections", "index"} /\ pc = "done"
   /\ EveryReferenceResolves /\ EveryCycleThroughProperties) =>
    ~IsThrown(result)

\* buildReferenceIndex has returned on a document where A and B refer to
\* each other through properties, with an object section for each
C18_Witness ==
  /\ mode = "index" /\ Returned
  /\ EveryReferenceResolves /\ EveryCycleThroughProperties
  /\ PropertyCycleAB
  /\ [i \in 1..Len(result.v.sections.objects) |-> result.v.sections.objects[i].name]
       = <<"A", "B">>
  /\ Len(result.v.parameterRows) = 2

\* the schema a chain of at most k references ends in
RECURSIVE FinalSchema(_, _)
FinalSchema(schema, k) ==
  IF k = 0 \/ ~HasRef(schema) \/ getRefName(schema) \notin DOMAIN document.schemas
  THEN schema
  ELSE FinalSchema(document.schemas[getRefName(schema)], k - 1)
Final(schema) == FinalSchema(schema, Cardinality(DOMAIN document.schemas) + 1)
\* the schema has at least one enum value, is complex per the classifier
HasEnumValue(schema) == getEnumValues(document, schema, MaxDepth) # Ok(<<>>)
IsComplex(schema) == isSchemaComplex(document, schema, MaxDepth) = Ok(TRUE)
IsObjectShaped(schema) == TypeOf(schema) = "object" \/ Has(schema, "properties")

\* the kind by the three rules alone, "" for no section
KindByRules(schema) ==
  IF Has(schema, "anyOf") \/ Has(schema, "oneOf") THEN "union"
  ELSE IF HasEnumValue(schema) THEN "enum"
  ELSE IF IsObjectShaped(schema) \/ IsComplex(schema) THEN "object"
  ELSE ""
\* the kind with the rule for arrays: an array that has no enum value takes
\* the kind of its items
RECURSIVE KindWithArrayRule(_, _)
KindWithArrayRule(schema, k) ==
  IF Has(schema, "anyOf") \/ Has(schema, "oneOf") THEN "union"
  ELSE IF HasEnumValue(schema) THEN "enum"
  ELSE IF IsObjectShaped(schema) THEN "object"
  ELSE IF TypeOf(schema) = "array" \/ Has(schema, "items")
       THEN IF k = 0 \/ ~Has(schema, "items") THEN ""
            ELSE KindWithArrayRule(Final(schema.items), k - 1)
  ELSE IF IsComplex(schema) THEN "object"
  ELSE ""

\* the named schemas collected from the roots that are not inlineable
CollectedRefs == collectRefsFromSchemas(document, roots, MaxDepth).v
NonInlineable ==
  {i \in 1..Len(CollectedRefs) :
     getInlineable(document, CollectedRefs[i].schema, MaxDepth) = Ok(FALSE)}
\* the kind the result gives a name: that of its entry in byName, "" when it
\* has none; and the name has a section in the list of that kind and in no
\* other
KindGiven(name) ==
  IF mapHas(result.v.byName, name) THEN mapGet(result.v.byName, name).kind ELSE ""
SectionListsAgree(name) ==
  /\ (name \in NamesOf(result.v.unions)) <=> (KindGiven(name) = "union")
  /\ (name \in NamesOf(result.v.enums)) <=> (KindGiven(name) = "enum")
  /\ (name \in NamesOf(result.v.objects)) <=> (KindGiven(name) = "object")

\* C19 as stated: a non-inlineable named schema is given the kind "union"
\* if it has anyOf or oneOf, otherwise "enum" if it has at least one enum
\* value, otherwise "object" if it is object-shaped or complex, and
\* otherwise no section.
C19_SectionKind ==
  (mode = "sections" /\ Returned) =>
    \A i \in NonInlineable :
      /\ KindGiven(CollectedRefs[i].name) = KindByRules(Final(CollectedRefs[i].schema))
      /\ SectionListsAgree(CollectedRefs[i].name)

\* C19, amended: as stated, except that an array schema with no enum value
\* takes the kind of its items (and no section when the items have none),
\* whether or not it is complex.
C19_SectionKindOfArrays ==
  (mode = "sections" /\ Returned) =>
    \A i \in NonInlineable :
      /\ KindGiven(CollectedRefs[i].name)
           = KindWithArrayRule(Final(CollectedRefs[i].schema), MaxDepth)
      /\ SectionListsAgree(CollectedRefs[i].name)

\* A is an array whose items are a union of C and B, C a bare string and B
\* an object: A has a union section, B an object section, C none
C19_Witness ==
  /\ mode = "sections" /\ Returned
  /\ document.schemas.A = ArrayOfUnion("C", "B")
  /\ document.schemas.C = StringSchema
  /\ NamesOf(CollectedRefs) = {"A", "B", "C"}
  /\ KindGiven("A") = "union" /\ NamesOf(result.v.unions) = {"A"}
  /\ KindGiven("B") = "object"
  /\ KindGiven("C") = "" /\ NamesOf(result.v.enums) = {}

\* the sections buildReferenceIndex returned, list after list
ReturnedSections == AllSections(result.v.sections)
\* the id of the returned section of a name, "" (null) when it has none
IdOfSection(name) ==
  IF \E i \in 1..Len(ReturnedSections) : ReturnedSections[i].name = name
  THEN ReturnedSections[CHOOSE i \in 1..Len(ReturnedSections) :
                          ReturnedSections[i].name = name].id
  ELSE ""
\* the link a variant schema is to have: the section of its deep reference
\* name
LinkOf(schema) ==
  IF getRefNameDeep(schema) = "" THEN "" ELSE IdOfSection(getRefNameDeep(schema))
\* the variant schemas of a union, in document order
VariantSchemas(schema) == getUnionVariants(document, schema, MaxDepth).v
\* the item variants of a variant that is an array of a union, else none
ItemVariants(v) ==
  IF TypeOf(resolveRef(document, v)) = "array" /\ Has(resolveRef(document, v), "items")
  THEN VariantSchemas(resolveRef(document, v).items)
  ELSE <<>>
\* the descriptor `variant` of the variant schema v is linked, and so are
\* the variants of its nested group
VariantLinked(variant, v) ==
  /\ variant.sectionId = LinkOf(v)
  /\ IF ItemVariants(v) = <<>> THEN ~Has(variant, "groupVariants")
     ELSE /\ Has(variant, "groupVariants")
          /\ Len(variant.groupVariants) = Len(ItemVariants(v))
          /\ \A k \in 1..Len(ItemVariants(v)) :
               variant.groupVariants[k].sectionId = LinkOf(ItemVariants(v)[k])
\* the variants of a row, which are in the order of the variant schemas
RowVariantsLinked(variants, schema) ==
  /\ Len(variants) = Len(VariantSchemas(schema))
  /\ \A j \in 1..Len(variants) : VariantLinked(variants[j], VariantSchemas(schema)[j])
\* the variants of a union section, which are sorted by label: some
\* one-to-one assignment of the variant schemas to them links each
SectionVariantsLinked(variants, schema) ==
  /\ Len(variants) = Len(VariantSchemas(schema))
  /\ \E p \in Orderings([j \in 1..Len(variants) |-> j]) :
       \A j \in 1..Len(variants) :
         /\ VariantLinked(variants[p[j]], VariantSchemas(schema)[j])
         /\ (getRefNameDeep(VariantSchemas(schema)[j]) # "" /\ ItemVariants(VariantSchemas(schema)[j]) = <<>>)
              => variants[p[j]].label = getRefNameDeep(VariantSchemas(schema)[j])
\* the rows of an object section, one per property of the schema
SectionRowsLinked(rows, schema) ==
  \/ IsNoProps(getSchemaProperties(document, schema, MaxDepth)) /\ rows = <<>>
  \/ /\ ~IsNoProps(getSchemaProperties(document, schema, MaxDepth))
     /\ Len(rows) = Len(getSchemaProperties(document, schema, MaxDepth).v)
     /\ \A j \in 1..Len(rows) :
          RowVariantsLinked(rows[j].unionVariants,
                            getSchemaProperties(document, schema, MaxDepth).v[j].schema)
\* every sectionId of a list of variants, those of nested groups included
SectionIdsOf(variants) ==
  {variants[j].sectionId : j \in 1..Len(variants)}
  \cup UNION {IF Has(variants[j], "groupVariants")
              THEN {variants[j].groupVariants[k].sectionId :
                      k \in 1..Len(variants[j].groupVariants)}
              ELSE {} : j \in 1..Len(variants)}
\* every sectionId the result holds
AllSectionIds ==
  UNION {SectionIdsOf(result.v.parameterRows[i].unionVariants) :
           i \in 1..Len(result.v.parameterRows)}
  \cup UNION {SectionIdsOf(result.v.sections.unions[i].variants) :
                i \in 1..Len(result.v.sections.unions)}
  \cup UNION {UNION {SectionIdsOf(result.v.sections.objects[i].rows[j].unionVariants) :
                       j \in 1..Len(result.v.sections.objects[i].rows)} :
                i \in 1..Len(result.v.sections.objects)}

\* C20: in the result of buildReferenceIndex every variant (of a union
\* section, of a row's unionVariants, of a nested group) has as sectionId
\* the id of the section of its deep reference name, and null when that
\* name has no section, wherever in collection order the referenced schema
\* comes; and every sectionId that is not null is the id of a section in
\* the returned enums, objects or unions.
C20_LinksResolve ==
  (mode = "index" /\ Returned) =>
    /\ \A i \in 1..Len(result.v.parameterRows) :
         RowVariantsLinked(result.v.parameterRows[i].unionVariants,
                           roots[1].properties[i].schema)
    /\ \A i \in 1..Len(result.v.sections.unions) :
         SectionVariantsLinked(result.v.sections.unions[i].variants,
                               document.schemas[result.v.sections.unions[i].name])
    /\ \A i \in 1..Len(result.v.sections.objects) :
         SectionRowsLinked(result.v.sections.objects[i].rows,
                           document.schemas[result.v.sections.objects[i].name])
    /\ AllSectionIds \subseteq
         {""} \cup {ReturnedSections[i].id : i \in 1..Len(ReturnedSections)}

\* A, a union of C and B, is collected before C, and its section links the
\* variant C to the section of C, as do the variants of the row whose
\* property refers to A; the variant B, a bare string, has no link
C20_Witness ==
  /\ mode = "index" /\ Returned
  /\ document.schemas.A = UnionOf("C", "B")
  /\ document.schemas.B = StringSchema
  /\ document.schemas.C = EnumSchema
  /\ [i \in 1..Len(result.v.sections.byName) |-> result.v.sections.byName[i].name]
       = <<"A", "C">>
  /\ Len(result.v.sections.unions) = 1
  /\ result.v.sections.unions[1].variants[1].label = "B"
  /\ result.v.sections.unions[1].variants[1].sectionId = ""
  /\ result.v.sections.unions[1].variants[2].label = "C"
  /\ result.v.sections.unions[1].variants[2].sectionId = "enum-C"
  /\ Len(result.v.parameterRows) = 2
  /\ result.v.parameterRows[2].typeLinkId = "union-A"
  /\ Len(result.v.parameterRows[2].unionVariants) = 2
  /\ result.v.parameterRows[2].unionVariants[1].sectionId = "enum-C"
  /\ result.v.parameterRows[2].unionVariants[2].sectionId = ""

\* the field of a row is inlineable, per the classifier
FieldInlineable(prop) == getInlineable(document, prop, MaxDepth) = Ok(TRUE)
\* the deep reference name of the field is a key of the name -> id table
FieldHasSection(prop) ==
  getRefNameDeep(prop) # "" /\ mapHas(result.v.sections.byName, getRefNameDeep(prop))

\* C21: in every parameter row, typeLinkId is not null exactly when the
\* field is not inlineable and its deep reference name is a key of the
\* section name -> id table, and then it is that id; an inlineable field has
\* typeLinkId null; and inlineRows is non-empty only for inlineable fields.
C21_TypeLink ==
  (mode = "index" /\ Returned) =>
    \A i \in 1..Len(result.v.parameterRows) :
      /\ (result.v.parameterRows[i].typeLinkId # "")
           <=> (~FieldInlineable(roots[1].properties[i].schema)
                /\ FieldHasSection(roots[1].properties[i].schema))
      /\ result.v.parameterRows[i].typeLinkId # "" =>
           result.v.parameterRows[i].typeLinkId
             = mapGet(result.v.sections.byName,
                      getRefNameDeep(roots[1].properties[i].schema)).id
      /\ FieldInlineable(roots[1].properties[i].schema) =>
           result.v.parameterRows[i].typeLinkId = ""
      /\ result.v.parameterRows[i].inlineRows # <<>> =>
           FieldInlineable(roots[1].properties[i].schema)

\* the field b refers to an inlineable object and has inline rows and no
\* link; the field a refers to an object that has a section, registered
\* second in the table, and links to it
C21_Witness ==
  /\ mode = "index" /\ Returned
  /\ document.schemas.B = InlineableObject
  /\ document.schemas.A = ObjectOf("C")
  /\ document.schemas.C = EnumSchema
  /\ Len(result.v.parameterRows) = 2
  /\ result.v.parameterRows[1].name = "b"
  /\ result.v.parameterRows[1].inlineable
  /\ result.v.parameterRows[1].typeLinkId = ""
  /\ Len(result.v.parameterRows[1].inlineRows) = 2
  /\ result.v.parameterRows[2].name = "a"
  /\ result.v.parameterRows[2].typeLinkId = "object-A"
  /\ result.v.parameterRows[2].inlineRows = <<>>

\* C22: for every reference string, the node the classifier recurses on is
\* the node the pointer resolver returns for that pointer, and the original
\* reference node when the pointer resolver returns absent.
C22_ClassifierUsesPointerResolver ==
  (mode = "resolve" /\ pc = "done") =>
    ToJson(result.classifier) =
      IF ptrResult.k \in {"undefined", "null"} THEN ToJson(roots[1]) ELSE ptrResult

\* The label the precedence rules give, the first rule that applies deciding.
RECURSIVE LabelByPrecedence(_)
LabelByPrecedence(schema) ==
  IF schema = Null THEN "unknown"
  ELSE IF HasRef(schema) THEN getRefName(schema)
  ELSE IF Has(schema, "properties") \/ Has(schema, "additionalProperties") THEN "object"
  ELSE IF Has(schema, "items") THEN LabelByPrecedence(schema.items)
  ELSE IF Has(schema, "type") THEN schema.type
  ELSE IF Has(schema, "allOf")
       THEN IF \E i \in 1..Len(schema.allOf) : HasRef(schema.allOf[i])
            THEN LabelByPrecedence(
                   schema.allOf[CHOOSE i \in 1..Len(schema.allOf) :
                                  /\ HasRef(schema.allOf[i])
                                  /\ \A j \in 1..(i - 1) : ~HasRef(schema.allOf[j])])
            ELSE "object"
  ELSE IF Has(schema, "anyOf")
       THEN IF \E i \in 1..Len(schema.anyOf) : TypeOf(schema.anyOf[i]) # "null"
            THEN LabelByPrecedence(
                   schema.anyOf[CHOOSE i \in 1..Len(schema.anyOf) :
                                  /\ TypeOf(schema.anyOf[i]) # "null"
                                  /\ \A j \in 1..(i - 1) : TypeOf(schema.anyOf[j]) = "null"])
            ELSE "unknown"
  ELSE IF Has(schema, "oneOf") THEN LabelByPrecedence(schema.oneOf[1])
  ELSE "unknown"

\* C23: getTypeLabel returns the label of the first rule that applies: the
\* reference name of a reference; "object" for a node with properties or
\* additionalProperties; the label of items; the explicit type; for allOf the
\* label of the first branch that is a reference, else "object"; for anyOf
\* the label of the first non-null branch; for oneOf the label of the first
\* branch; otherwise "unknown".
C23_TypeLabelPrecedence ==
  (mode = "classify" /\ pc = "done") =>
    result.typeLabel = Ok(LabelByPrecedence(roots[1]))

\* the node is a union: it has anyOf or oneOf, directly or after dereferencing
IsUnionNode(schema) == HasVariants2(Final(schema))
\* the leaves of a union in document order: the null-typed branches removed,
\* a branch that is a union replaced by its own leaves
RECURSIVE SplicedLeaves(_, _)
RECURSIVE SplicedFrom(_, _, _)
SplicedLeaves(schema, k) ==
  IF k = 0 \/ ~IsUnionNode(schema) THEN <<>>
  ELSE SplicedFrom(Variants2(Final(schema)), 1, k - 1)
SplicedFrom(variants, i, k) ==
  IF i > Len(variants) THEN <<>>
  ELSE (IF TypeOf(variants[i]) = "null" THEN <<>>
        ELSE IF IsUnionNode(variants[i]) THEN SplicedLeaves(variants[i], k)
        ELSE <<variants[i]>>) \o SplicedFrom(variants, i + 1, k)

\* C24: getUnionVariants returns the leaves of the union in document order:
\* no returned node is null-typed, none is itself a union (directly or after
\* dereferencing), and the variants of a nested union branch stand at the
\* position of that branch.
C24_UnionVariantsFlat ==
  (mode = "classify" /\ pc = "done" /\ ~IsThrown(result.unionVariants)) =>
    /\ \A i \in 1..Len(result.unionVariants.v) :
         /\ TypeOf(result.unionVariants.v[i]) # "null"
         /\ ~IsUnionNode(result.unionVariants.v[i])
    /\ result.unionVariants.v = SplicedLeaves(roots[1], MaxDepth)

RECURSIVE ComplexByRules(_, _)
ComplexByRules(schema, k) ==
  IF k = 0 THEN FALSE
  ELSE IF HasVariants3(Final(schema)) THEN TRUE
  ELSE IF TypeOf(Final(schema)) = "array"
       THEN Has(Final(schema), "items") /\ ComplexByRules(Final(schema).items, k - 1)
  ELSE IsObjectShaped(Final(schema)) \/ Has(Final(schema), "items")

InSchemaNamespace(ref) ==
  /\ Len(ref) = 7
  /\ SubSeq(ref, 1, 6) = <<"#", "/", "components", "/", "schemas", "/">>
  /\ ref[7] # "/"

\* C26: refName returns the final path segment only for a reference
\* "#/components/schemas/<Name>", and absent for every other reference:
\* into other component areas, deeper paths, non-local references.
C26_RefNameNamespace ==
  (mode = "resolve" /\ pc = "done") =>
    result.refName = IF InSchemaNamespace(pointer)
                     THEN JStr(decodePointerSegment(<<pointer[7]>>))
                     ELSE JNull

\* C27: across any number and any interleaving of loadOpenApiDocument calls,
\* the file is read and parsed at most once, and every call resolves to the
\* same cached document object.
C27_LoadedOnce ==
  mode = "load" =>
    /\ reads <= 1
    /\ parses <= 1
    /\ \A c1, c2 \in Callers :
         (calls[c1].at = "done" /\ calls[c2].at = "done") =>
           calls[c1].resolved = calls[c2].resolved

\* what parseSSEStream returns when the whole stream arrives as one chunk
WholeStreamResult == afterChunk(<<>>, responseBody, NoOutput).out
\* the blocks of the stream whose data is not the sentinel
EventBlocks == {i \in 1..Len(responseBody) : responseBody[i] \in Payloads \ {"[DONE]"}}
\* the errors of failed JSON.parse calls
ParseErrors(errs) == {i \in 1..Len(errs) : errs[i][1] = "Failed to parse event data: "}

\* C28: for a fixed stream parseSSEStream returns the same events, errors and
\* finalResponse however the stream is split into chunks, and every block of
\* a data line and a blank line gives exactly one event or one parse error,
\* the [DONE] sentinel giving neither.
C28_ChunkIndependence ==
  (mode = "stream" /\ pc = "done") =>
    /\ result = WholeStreamResult
    /\ Len(result.events) + Cardinality(ParseErrors(result.errors))
         = Cardinality(EventBlocks)

\* the node that supplies the property map of a schema: the schema itself
\* after dereferencing when it is an object with properties, the node of its
\* items for an array, else the node of the first allOf, anyOf or oneOf
\* branch that has one; Null when there is none
RECURSIVE PropertyNode(_, _)
FirstWithProperties(branches, k) ==
  IF \E i \in 1..Len(branches) : PropertyNode(branches[i], k) # Null
  THEN PropertyNode(branches[CHOOSE i \in 1..Len(branches) :
                               /\ PropertyNode(branches[i], k) # Null
                               /\ \A j \in 1..(i - 1) : PropertyNode(branches[j], k) = Null], k)
  ELSE Null
PropertyNode(schema, k) ==
  IF k = 0 \/ schema = Null THEN Null
  ELSE IF HasRef(schema)
       THEN IF resolveRef(document, schema) = schema THEN Null
            ELSE PropertyNode(resolveRef(document, schema), k - 1)
  ELSE IF TypeOf(schema) = "object" /\ Has(schema, "properties") THEN schema
  ELSE IF TypeOf(schema) = "array" /\ Has(schema, "items") THEN PropertyNode(schema.items, k - 1)
  ELSE IF Has(schema, "allOf") /\ FirstWithProperties(schema.allOf, k - 1) # Null
       THEN FirstWithProperties(schema.allOf, k - 1)
  ELSE IF Has(schema, "anyOf") /\ FirstWithProperties(schema.anyOf, k - 1) # Null
       THEN FirstWithProperties(schema.anyOf, k - 1)
  ELSE IF Has(schema, "oneOf") THEN FirstWithProperties(schema.oneOf, k - 1)
  ELSE Null
\* the rows are those of the node: one row per property, in property order,
\* a row required only if the node's required list has its name
RowsOfNode(rows, node) ==
  IF node = Null THEN rows = <<>>
  ELSE /\ RowNames(rows) = [j \in 1..Len(node.properties) |-> node.properties[j].name]
       /\ \A j \in 1..Len(rows) :
            rows[j].required =>
              /\ Has(node, "required")
              /\ \E r \in 1..Len(node.required) : node.required[r] = rows[j].name

\* C29: the rows of an object section come from one schema node: there is
\* exactly one row per property of the node that supplies the property map,
\* in property order, and a row is marked required only if its name is in
\* the required list of that same node, also for a schema composed with
\* allOf, anyOf or oneOf.
C29_RowsSelfConsistent ==
  (mode = "sections" /\ Returned) =>
    \A i \in 1..Len(result.v.objects) :
      RowsOfNode(result.v.objects[i].rows,
                 PropertyNode(document.schemas[result.v.objects[i].name], MaxDepth))

====
